---- MODULE Spec2Model ----
(***************************************************************************)
(* Model of the paper-portfolio engine of src/portfolio_tracker.py: the    *)
(* portfolio document kept in portfolio_data.json and the operations that  *)
(* read and rewrite it (init_portfolio, auto_trade, update_portfolio,      *)
(* execute_trade, load_portfolio, save_portfolio).                         *)
(*                                                                         *)
(* Units.  Every amount is an integer number of VND.  The data feed gives  *)
(* closes in thousands of VND; get_current_price and analyze_stock         *)
(* multiply by 1000 on ingest, so the model's inputs are the closes        *)
(* already in VND.  Every price at which the model buys (20000, 71460,     *)
(* the seed's 70500) is a multiple of 20 VND for which price * 1.10 and    *)
(* price * 0.95 are whole numbers that IEEE doubles compute exactly, so    *)
(* the integer arithmetic below agrees with the float arithmetic of the    *)
(* source on every input the model draws.  All amounts stay below 2^31.    *)
(* The float-only display field pnl_percent is not carried.                *)
(*                                                                         *)
(* Optional values (Python None) are sequences of length 0 or 1.           *)
(***************************************************************************)
EXTENDS Integers, Sequences, FiniteSets, TLC

(* ------------------------------ bounds --------------------------------- *)

\* Operations (ticks, manual trades) performed in one behaviour.
MaxOps == 3

\* Operations before which a tick with observed data may start.
MaxScanOps == 2

(* ------------------------- program constants --------------------------- *)

\* portfolio_tracker.py:172.
WATCHLIST ==
    <<"GAS", "FPT", "VNM", "MWG", "HPG", "VCB", "TCB", "VHM", "VIC", "MSN">>

\* portfolio_tracker.py:278, the cash needed before the entry scan runs.
MIN_ENTRY_CASH == 5000000

\* portfolio_tracker.py:188, the score a candidate needs.
ENTRY_SCORE == 30

\* portfolio_tracker.py:286, "Buy minimum lot".
LOT == 100

\* portfolio_tracker.py:110, the bars analyze_stock needs.
MIN_BARS == 20

\* portfolio_tracker.py:124, the bars the 50-day average needs.
SMA50_BARS == 50

Symbols == {WATCHLIST[i] : i \in 1..Len(WATCHLIST)}

(* ------------------------------ inputs --------------------------------- *)

\* Closes get_current_price may return for a held symbol (VND).
FeedPrices == {19000, 66975, 70500, 77550}

\* get_current_price's results: None or a price.
PriceOpt == {<<>>} \cup {<<p>> : p \in FeedPrices}

\* What stock.quote.history gives analyze_stock, after pandas has computed
\* the indicators: the number of bars, the last close, the averages, the RSI
\* and whether MACD is above its signal line.  fails = the call raised.
Bars(fails, nbars, price, sma20, sma50, rsi, macd_bullish) ==
    [fails |-> fails, nbars |-> nbars, price |-> price, sma20 |-> sma20,
     sma50 |-> sma50, rsi |-> rsi, macd_bullish |-> macd_bullish]

HistoryInputs ==
    { Bars(TRUE, 0, 0, 0, 0, 0, FALSE),               \* the fetch raises
      Bars(FALSE, 60, 71460, 70000, 69000, 50, TRUE), \* uptrend, score 60
      Bars(FALSE, 60, 20000, 19000, 19500, 50, TRUE), \* sideways, score 30
      Bars(FALSE, 60, 20000, 21000, 22000, 50, FALSE) \* downtrend, score -40
    }

\* The fetch of a symbol's history raises.
NoBars == Bars(TRUE, 0, 0, 0, 0, 0, FALSE)

\* The symbols for which the data feed answers in the runs of the model;
\* for the rest of the watchlist every fetch raises.  VNM, when it answers,
\* gives the sideways history.
FedSymbols == {"GAS", "FPT", "VNM"}
ThirdInputs == {NoBars, Bars(FALSE, 60, 20000, 19000, 19500, 50, TRUE)}

\* What the history fetches of one scan give, per watchlist symbol, when
\* GAS and FPT draw from `inputs`.
HistFeeds(inputs) ==
    {[s \in Symbols |-> IF s \in DOMAIN g THEN g[s] ELSE NoBars] :
       g \in {h \in [FedSymbols -> inputs \cup ThirdInputs] :
                /\ h["VNM"] \in ThirdInputs
                /\ \A s \in FedSymbols \ {"VNM"} : h[s] \in inputs}}

\* The inputs of the ticks whose data is observed: HistoryInputs, a
\* history of 20 bars, for which analyze_stock takes sma20 as sma50
\* (sideways, score 30), and one of 19 bars, which it refuses.
ScanInputs ==
    HistoryInputs \cup { Bars(FALSE, 20, 20000, 19000, 19000, 50, TRUE),
                         Bars(FALSE, 19, 20000, 19000, 19000, 50, TRUE) }

(* --------------------------- the document ------------------------------ *)

\* One entry of `trades`.  The reason string is kept as its parts.
Reason(tag, value, trend, rsi) ==
    [tag |-> tag, value |-> value, trend |-> trend, rsi |-> rsi]

Trade(date, action, symbol, shares, price, total, reason) ==
    [date |-> date, action |-> action, symbol |-> symbol, shares |-> shares,
     price |-> price, total |-> total, reason |-> reason]

\* An open position as auto_trade (291-304) and execute_trade (623-636)
\* build it.  id is the model's name for the dict object: the ordinal of
\* the BUY that created it.
NewPosition(id, symbol, shares, price, date) ==
    [id |-> id, symbol |-> symbol, shares |-> shares, buy_price |-> price,
     buy_date |-> date, buy_cost |-> price * shares,
     target |-> (price * 110) \div 100,
     stop_loss |-> (price * 95) \div 100,
     status |-> "OPEN", current_price |-> price,
     current_value |-> price * shares, pnl |-> 0]

HistoryEntry(date, total_value, cash, initial) ==
    [date |-> date, total_value |-> total_value, cash |-> cash,
     invested |-> total_value - cash, pnl |-> total_value - initial]

\* The seed document init_portfolio writes.
init_portfolio(date) ==
    [initial_budget |-> 7500000,
     cash |-> 450000,
     positions |-> << [id |-> 1, symbol |-> "GAS", shares |-> 100,
                       buy_price |-> 70500, buy_date |-> 0,
                       buy_cost |-> 7050000, target |-> 77550,
                       stop_loss |-> 66975, status |-> "OPEN",
                       current_price |-> 70500, current_value |-> 7050000,
                       pnl |-> 0] >>,
     closed_positions |-> <<>>,
     trades |-> << Trade(0, "BUY", "GAS", 100, 70500, 7050000,
                         Reason("Score", 50, "UPTREND", 0)) >>,
     history |-> << [date |-> 0, total_value |-> 7500000, cash |-> 450000,
                     invested |-> 7050000, pnl |-> 0] >>,
     last_updated |-> date]

(* ------------------------------ helpers -------------------------------- *)

RECURSIVE SumSeq(_)
SumSeq(s) == IF s = <<>> THEN 0 ELSE Head(s) + SumSeq(Tail(s))

RECURSIVE SelectSeqBy(_, _)
\* [x for x in s if x.status = st]
SelectSeqBy(s, st) ==
    IF s = <<>> THEN <<>>
    ELSE IF Head(s).status = st
         THEN <<Head(s)>> \o SelectSeqBy(Tail(s), st)
         ELSE SelectSeqBy(Tail(s), st)

OpenPositions(p) == SelectSeqBy(p.positions, "OPEN")

OpenSymbols(p) == {p.positions[i].symbol : i \in
                     {j \in 1..Len(p.positions) : p.positions[j].status = "OPEN"}}

CountAction(trades, a) ==
    Cardinality({i \in 1..Len(trades) : trades[i].action = a})

\* The ordinal the next BUY gets.
NextId(p) == CountAction(p.trades, "BUY") + 1

(* ----------------------------- analysis -------------------------------- *)

\* analyze_stock (100-169): None, or the analysis with its score.
analyze_stock(symbol, h) ==
    IF h.fails \/ h.nbars < MIN_BARS THEN <<>>
    ELSE
      LET price == h.price
          sma20 == h.sma20
          sma50 == IF h.nbars >= SMA50_BARS THEN h.sma50 ELSE sma20
          trend == IF price > sma20 /\ sma20 > sma50 THEN "UPTREND"
                   ELSE IF price < sma20 /\ sma20 < sma50 THEN "DOWNTREND"
                   ELSE "SIDEWAYS"
          s1 == IF trend = "UPTREND" THEN 30
                ELSE IF trend = "DOWNTREND" THEN 0 - 30 ELSE 0
          s2 == IF h.rsi < 30 THEN 20 ELSE IF h.rsi > 70 THEN 0 - 20 ELSE 0
          s3 == IF h.macd_bullish THEN 20 ELSE 0 - 10
          s4 == IF price > sma20 THEN 10 ELSE 0
      IN << [symbol |-> symbol, price |-> price, rsi |-> h.rsi,
             sma20 |-> sma20, sma50 |-> sma50, trend |-> trend,
             macd_bullish |-> h.macd_bullish,
             score |-> s1 + s2 + s3 + s4] >>

RECURSIVE InsertByScore(_, _)
\* Insert x after every element whose score is >= x.score: with the
\* elements inserted in list order this is Python's stable
\* sort(key=score, reverse=True).
InsertByScore(sorted, x) ==
    IF sorted = <<>> THEN <<x>>
    ELSE IF Head(sorted).score >= x.score
         THEN <<Head(sorted)>> \o InsertByScore(Tail(sorted), x)
         ELSE <<x>> \o sorted

RECURSIVE SortByScore(_, _)
SortByScore(done, rest) ==
    IF rest = <<>> THEN done
    ELSE SortByScore(InsertByScore(done, Head(rest)), Tail(rest))

RECURSIVE ScanWatchlist_StopOnFailure(_, _, _)
\* ScanWatchlist leaving the loop at the first symbol it cannot analyze.
ScanWatchlist_StopOnFailure(i, hist, cash_available) ==
    IF i > Len(WATCHLIST) THEN <<>>
    ELSE
      LET symbol   == WATCHLIST[i]
          analysis == analyze_stock(symbol, hist[symbol])
          rest     == ScanWatchlist_StopOnFailure(i + 1, hist, cash_available)
      IN IF analysis = <<>> THEN <<>>
         ELSE IF analysis[1].price * 100 <= cash_available
                 /\ analysis[1].score >= ENTRY_SCORE
              THEN analysis \o rest
              ELSE rest

RECURSIVE ScanWatchlist(_, _, _)
\* The loop of find_buy_opportunities (179-190) from watchlist index i.
ScanWatchlist(i, hist, cash_available) ==
    IF i > Len(WATCHLIST) THEN <<>>
    ELSE
      LET symbol   == WATCHLIST[i]
          analysis == analyze_stock(symbol, hist[symbol])
          rest     == ScanWatchlist(i + 1, hist, cash_available)
      IN IF analysis = <<>> THEN rest
         ELSE IF analysis[1].price * 100 <= cash_available
                 /\ analysis[1].score >= ENTRY_SCORE
              THEN analysis \o rest
              ELSE rest

\* find_buy_opportunities (174-194).
find_buy_opportunities(hist, cash_available) ==
    SortByScore(<<>>, ScanWatchlist(1, hist, cash_available))

(* ------------------------------ auto_trade ----------------------------- *)

\* Lines 218-220 (and 383-385): the mark-to-market fields of a position.
MarkToMarket(pos, current_price) ==
    [pos EXCEPT !.current_price = current_price,
                !.current_value = current_price * pos.shares,
                !.pnl = current_price * pos.shares - pos.buy_cost]

\* ClosePosition with the profit taken per share: the shares are forgotten.
ClosePosition_PerShare(pos, price, date) ==
    [status |-> "CLOSED", sell_price |-> price, sell_date |-> date,
     final_pnl |-> price - pos.buy_price] @@ pos

\* Lines 226-229 (and 594-597): the position closed at `price`.
ClosePosition(pos, price, date) ==
    [status |-> "CLOSED", sell_price |-> price, sell_date |-> date,
     final_pnl |-> price * pos.shares - pos.buy_cost] @@ pos

\* StopLossHit with a strict comparison.
StopLossHit_Strict(current_price, pos) == current_price < pos.stop_loss

\* Line 224: the stop-loss test.
StopLossHit(current_price, pos) == current_price <= pos.stop_loss

\* Line 245: the target test.
TargetHit(current_price, pos) == current_price >= pos.target

\* RecordSell where the TARGET REACHED branch forgets the by-value copy.
RecordSell_NoCopyOnTarget(p, sold, tag, date) ==
    [p EXCEPT !.cash = @ + sold.sell_price * sold.shares,
              !.closed_positions = IF tag = "TARGET REACHED" THEN @
                                   ELSE Append(@, sold),
              !.trades = Append(@, Trade(date, "SELL", sold.symbol,
                                   sold.shares, sold.sell_price,
                                   sold.sell_price * sold.shares,
                                   Reason(tag, sold.sell_price, "", 0)))]

\* RecordSell putting the newest trade entry first.
RecordSell_NewestFirst(p, sold, tag, date) ==
    [p EXCEPT !.cash = @ + sold.sell_price * sold.shares,
              !.closed_positions = Append(@, sold),
              !.trades = <<Trade(date, "SELL", sold.symbol,
                                 sold.shares, sold.sell_price,
                                 sold.sell_price * sold.shares,
                                 Reason(tag, sold.sell_price, "", 0))>> \o @]

\* RecordSell crediting what the position cost, not what the sale brings.
RecordSell_CreditCost(p, sold, tag, date) ==
    [p EXCEPT !.cash = @ + sold.buy_cost,
              !.closed_positions = Append(@, sold),
              !.trades = Append(@, Trade(date, "SELL", sold.symbol,
                                   sold.shares, sold.sell_price,
                                   sold.sell_price * sold.shares,
                                   Reason(tag, sold.sell_price, "", 0)))]

\* Lines 230-240 (and 251-261): the cash, the by-value copy and the trade
\* entry of an automatic sale; `sold` is the position already closed.
RecordSell(p, sold, tag, date) ==
    [p EXCEPT !.cash = @ + sold.sell_price * sold.shares,
              !.closed_positions = Append(@, sold),
              !.trades = Append(@, Trade(date, "SELL", sold.symbol,
                                   sold.shares, sold.sell_price,
                                   sold.sell_price * sold.shares,
                                   Reason(tag, sold.sell_price, "", 0)))]

RECURSIVE ExitLoop(_, _, _, _)
\* The loop of lines 210-269 from position index i: mark to market, then
\* stop-loss, else target, else hold.  feed[symbol] is what
\* get_current_price returns for the symbol in this tick.
ExitLoop(p, i, feed, date) ==
    IF i > Len(p.positions) THEN p
    ELSE
      LET pos == p.positions[i] IN
      IF pos.status # "OPEN" THEN ExitLoop(p, i + 1, feed, date)
      ELSE
        LET fetched       == feed[pos.symbol]
            current_price == IF fetched = <<>> THEN pos.current_price
                             ELSE fetched[1]
            marked        == MarkToMarket(pos, current_price)
        IN IF StopLossHit(current_price, marked)
           THEN LET sold == ClosePosition(marked, current_price, date)
                    q    == [p EXCEPT !.positions[i] = sold]
                IN ExitLoop(RecordSell(q, sold, "STOP LOSS", date),
                            i + 1, feed, date)
           ELSE IF TargetHit(current_price, marked)
           THEN LET sold == ClosePosition(marked, current_price, date)
                    q    == [p EXCEPT !.positions[i] = sold]
                IN ExitLoop(RecordSell(q, sold, "TARGET REACHED", date),
                            i + 1, feed, date)
           ELSE ExitLoop([p EXCEPT !.positions[i] = marked],
                         i + 1, feed, date)

\* Lines 207-272: the exits, then the closed positions dropped from
\* `positions`.
ExitPhase(p, feed, date) ==
    LET q == ExitLoop(p, 1, feed, date)
    IN [q EXCEPT !.positions = SelectSeqBy(q.positions, "OPEN")]

\* Line 289: the affordability test of the entry.
CanAfford(cost, cash) == cost <= cash

\* DebitCash taking a 0.15% commission that the affordability test of
\* line 289 does not count.
DebitCash_WithCommission(cash, cost) == cash - cost - (cost * 15) \div 10000

\* Line 305: the cash after the purchase.
DebitCash(cash, cost) == cash - cost

\* BuyBest spending the whole cash: the shares are not rounded to lots.
BuyBest_WholeCash(p, best, cash, date) ==
    LET shares == cash \div best.price
        cost   == best.price * shares
    IN IF CanAfford(cost, cash)
       THEN [p EXCEPT
               !.positions = Append(@, NewPosition(NextId(p), best.symbol,
                                                   shares, best.price, date)),
               !.cash = DebitCash(@, cost),
               !.trades = Append(@, Trade(date, "BUY", best.symbol, shares,
                                    best.price, cost,
                                    Reason("Score", best.score, best.trend,
                                           best.rsi)))]
       ELSE p

\* Lines 284-315: the purchase of the best opportunity.
BuyBest(p, best, cash, date) ==
    LET shares == LOT
        cost   == best.price * shares
    IN IF CanAfford(cost, cash)
       THEN [p EXCEPT
               !.positions = Append(@, NewPosition(NextId(p), best.symbol,
                                                   shares, best.price, date)),
               !.cash = DebitCash(@, cost),
               !.trades = Append(@, Trade(date, "BUY", best.symbol, shares,
                                    best.price, cost,
                                    Reason("Score", best.score, best.trend,
                                           best.rsi)))]
       ELSE p

\* NotOwned without the filter.
NotOwned_NoFilter(opportunities, open_positions) == opportunities

\* Line 282: the opportunities in symbols that are not open.
NotOwned(opportunities, open_positions) ==
    SelectSeq(opportunities, LAMBDA o : o.symbol \notin open_positions)

RECURSIVE BuyEach(_, _, _)
\* Every opportunity bought in turn while the cash lasts.
BuyEach(p, opportunities, date) ==
    IF opportunities = <<>> THEN p
    ELSE BuyEach(BuyBest(p, Head(opportunities), p.cash, date),
                 Tail(opportunities), date)

\* EntryPhase buying every opportunity, not the first.
EntryPhase_BuyAll(p, hist, date) ==
    LET cash           == p.cash
        open_positions == OpenSymbols(p)
    IN IF cash >= MIN_ENTRY_CASH
       THEN BuyEach(p, NotOwned(find_buy_opportunities(hist, cash),
                                open_positions), date)
       ELSE p

\* EntryPhase scanning whatever the cash.
EntryPhase_NoCashFloor(p, hist, date) ==
    LET cash           == p.cash
        open_positions == OpenSymbols(p)
        opportunities  ==
            NotOwned(find_buy_opportunities(hist, cash), open_positions)
    IN IF opportunities # <<>>
       THEN BuyBest(p, opportunities[1], cash, date)
       ELSE p

\* Lines 274-319: the entry scan.  hist[symbol] is what the history fetch
\* of analyze_stock gives for the symbol in this tick.
EntryPhase(p, hist, date) ==
    LET cash           == p.cash
        open_positions == OpenSymbols(p)
    IN IF cash >= MIN_ENTRY_CASH
       THEN LET opportunities ==
                  NotOwned(find_buy_opportunities(hist, cash), open_positions)
            IN IF opportunities # <<>>
               THEN BuyBest(p, opportunities[1], cash, date)
               ELSE p
       ELSE p

\* TotalValue summing what the open positions cost.
TotalValue_CostBasis(p) ==
    p.cash + SumSeq([i \in 1..Len(OpenPositions(p)) |->
                       OpenPositions(p)[i].buy_cost])

\* Lines 321-325 (and 369, 388): cash plus the value of the open positions.
TotalValue(p) ==
    p.cash + SumSeq([i \in 1..Len(OpenPositions(p)) |->
                       OpenPositions(p)[i].current_value])

\* RecordHistory keeping one entry: the last one is overwritten.
RecordHistory_Overwrite(p, date) ==
    [p EXCEPT !.history = Append(SubSeq(@, 1, Len(@) - 1),
                                 HistoryEntry(date, TotalValue(p), p.cash,
                                              p.initial_budget)),
              !.last_updated = date]

\* Lines 327-341 (and 416-438): the history entry and last_updated.
RecordHistory(p, date) ==
    [p EXCEPT !.history = Append(@, HistoryEntry(date, TotalValue(p), p.cash,
                                                 p.initial_budget)),
              !.last_updated = date]

\* auto_trade (196-356) on the loaded document, up to save_portfolio.
auto_trade(p, feed, hist, date) ==
    RecordHistory(EntryPhase(ExitPhase(p, feed, date), hist, date), date)

(* --------------------------- update_portfolio -------------------------- *)

RECURSIVE MarkLoop(_, _, _)
\* The loop of lines 372-413 from position index i: mark to market only.
MarkLoop(p, i, feed) ==
    IF i > Len(p.positions) THEN p
    ELSE
      LET pos == p.positions[i] IN
      IF pos.status # "OPEN" THEN MarkLoop(p, i + 1, feed)
      ELSE
        LET fetched       == feed[pos.symbol]
            current_price == IF fetched = <<>> THEN pos.current_price
                             ELSE fetched[1]
        IN MarkLoop([p EXCEPT !.positions[i] = MarkToMarket(pos, current_price)],
                    i + 1, feed)

\* update_portfolio marking by symbol, the closed copies included.
update_portfolio_MarksClosed(p, feed, date) ==
    LET q == RecordHistory(MarkLoop(p, 1, feed), date)
        c == q.closed_positions
    IN [q EXCEPT !.closed_positions =
          [k \in 1..Len(c) |->
             IF c[k].symbol \in DOMAIN feed /\ feed[c[k].symbol] # <<>>
             THEN [c[k] EXCEPT !.current_price = feed[c[k].symbol][1]]
             ELSE c[k]]]

\* update_portfolio carrying out the sales it reports.
update_portfolio_SellsOnSignal(p, feed, date) ==
    RecordHistory(ExitPhase(p, feed, date), date)

\* update_portfolio (358-453) on the loaded document, up to save_portfolio.
\* The SELL signals it collects are printed and returned, not stored.
update_portfolio(p, feed, date) ==
    RecordHistory(MarkLoop(p, 1, feed), date)

(* ---------------------------- execute_trade ---------------------------- *)

\* FirstOpen without the status test.
FirstOpen_AnyStatus(p, symbol) ==
    LET hits == {i \in 1..Len(p.positions) : p.positions[i].symbol = symbol}
    IN IF hits = {} THEN 0
       ELSE CHOOSE i \in hits : \A j \in hits : i <= j

\* The index of the first open position in `symbol` (592-593), 0 if none.
FirstOpen(p, symbol) ==
    LET hits == {i \in 1..Len(p.positions) :
                   /\ p.positions[i].symbol = symbol
                   /\ p.positions[i].status = "OPEN"}
    IN IF hits = {} THEN 0
       ELSE CHOOSE i \in hits : \A j \in hits : i <= j

\* Lines 591-618: the manual SELL.
ExecuteSell(p, symbol, shares, price, reason, date) ==
    LET i == FirstOpen(p, symbol) IN
    IF i = 0 THEN p
    ELSE
      LET sold == ClosePosition(p.positions[i], price, date)
      IN [p EXCEPT !.positions[i] = sold,
                   !.cash = @ + price * sold.shares,
                   !.closed_positions = Append(@, sold),
                   !.trades = Append(@, Trade(date, "SELL", symbol, shares,
                                        price, price * shares, reason))]

\* Lines 620-652: the manual BUY.
ExecuteBuy(p, symbol, shares, price, reason, date) ==
    LET cost == price * shares IN
    IF cost <= p.cash
    THEN [p EXCEPT
            !.positions = Append(@, NewPosition(NextId(p), symbol, shares,
                                                price, date)),
            !.cash = @ - cost,
            !.trades = Append(@, Trade(date, "BUY", symbol, shares, price,
                                 cost, reason))]
    ELSE p

\* execute_trade (587-655) on the loaded document, up to save_portfolio.
execute_trade(p, action, symbol, shares, price, reason, date) ==
    IF action = "SELL" THEN ExecuteSell(p, symbol, shares, price, reason, date)
    ELSE IF action = "BUY"
         THEN ExecuteBuy(p, symbol, shares, price, reason, date)
         ELSE p

\* The arguments the model gives execute_trade.
ManualShares == {100, 200}
ManualPrices == {20000}
ManualReason == Reason("manual", 0, "", 0)

(* --------------------------- strategy engine --------------------------- *)
(* backend/app/services/strategy.py.  The engine keeps no state between    *)
(* analyses.  Scores are whole numbers; the weighted total is kept in      *)
(* twentieths, the weights 0.40, 0.35 and 0.25 being 8, 7 and 5            *)
(* twentieths.  Prices are whole multiples of 100 and the ATR is even, so  *)
(* that 3 * ATR, 1.5 * ATR and 2% of the price are whole numbers.          *)

\* strategy.py:110-112, the weights in twentieths.
W_TECH == 8
W_SENT == 7
W_FUND == 5

UNIT == W_TECH + W_SENT + W_FUND

\* strategy.py:90, the bars the engine needs.
ENGINE_MIN_BARS == 50

\* The last row of the frame calculate_technical_indicators returns
\* (market_data.py:161-212), with what the engine reads of the rows before
\* it.  An indicator whose column is missing is <<>>.
Frame(fails, nbars, close, close5, rsi, macd, sma, bb, vol, atr) ==
    [fails |-> fails, nbars |-> nbars, close |-> close, close5 |-> close5,
     rsi |-> rsi, macd |-> macd, sma |-> sma, bb |-> bb, vol |-> vol,
     atr |-> atr]

\* Lines 158-172.
RsiScore(d) ==
    IF d.rsi = <<>> THEN 0
    ELSE LET rsi == d.rsi[1]
         IN IF rsi < 30 THEN 20
            ELSE IF rsi < 40 THEN 10
            ELSE IF rsi > 70 THEN 0 - 20
            ELSE IF rsi > 60 THEN 0 - 10
            ELSE 0

\* Lines 174-192.
MacdScore(d) ==
    IF d.macd = <<>> THEN 0
    ELSE LET m == d.macd[1]
         IN IF m.macd > m.signal
            THEN IF m.macd_prev <= m.signal_prev THEN 20 ELSE 10
            ELSE IF m.macd_prev >= m.signal_prev THEN 0 - 20 ELSE 0 - 10

\* Lines 194-211.
SmaScore(d) ==
    IF d.sma = <<>> THEN 0
    ELSE LET a == d.sma[1]
         IN (IF a.sma20 > a.sma50 THEN 15 ELSE 0 - 15)
            + (IF d.close > a.sma20 THEN 5 ELSE 0 - 5)

\* Lines 213-224.
BollingerScore(d) ==
    IF d.bb = <<>> THEN 0
    ELSE IF d.close < d.bb[1].lower THEN 15
    ELSE IF d.close > d.bb[1].upper THEN 0 - 15
    ELSE 0

\* Lines 226-237: vol / vol_sma against 1.5 and 0.5.
VolumeScore(d) ==
    IF d.vol = <<>> THEN 0
    ELSE LET v == d.vol[1]
         IN IF v.vol_sma > 0
            THEN IF 2 * v.volume > 3 * v.vol_sma THEN 10
                 ELSE IF 2 * v.volume < v.vol_sma THEN 0 - 5
                 ELSE 0
            ELSE 0

\* Lines 239-247: (close / close[-5] - 1) * 100 against 5 and -5, in
\* doubles.  A quotient of exactly 1.05 rounds up to the double above 1.05
\* and the product is 5.000000000000004 > 5; one of exactly 0.95 rounds
\* down and the product is below -5.  For whole closes every other quotient
\* is further from 1.05 and 0.95 than the rounding, so the tests are those
\* of the exact ratio with the bound included.
ReturnScore(d) ==
    IF d.nbars >= 5
    THEN IF 100 * d.close >= 105 * d.close5 THEN 10
         ELSE IF 100 * d.close <= 95 * d.close5 THEN 0 - 10
         ELSE 0
    ELSE 0

\* _calculate_technical_score (145-249).
calculate_technical_score(d) ==
    RsiScore(d) + MacdScore(d) + SmaScore(d) + BollingerScore(d)
      + VolumeScore(d) + ReturnScore(d)

\* _calculate_sentiment_score (251-285): news is <<>> when there are no
\* articles, else the sentiment score times 50.
calculate_sentiment_score(news) ==
    IF news = <<>> THEN 0 ELSE news[1]

\* _calculate_fundamental_score (287-343): ratios is <<>> when the frame is
\* empty, else the last row, debtOnEquity in hundredths.
calculate_fundamental_score(ratios) ==
    IF ratios = <<>> THEN 0
    ELSE LET r == ratios[1]
         IN (IF r.pe # 0
             THEN IF 5 < r.pe /\ r.pe < 15 THEN 15
                  ELSE IF r.pe > 30 THEN 0 - 10
                  ELSE IF r.pe < 0 THEN 0 - 15 ELSE 0
             ELSE 0)
            + (IF r.roe # 0
               THEN IF r.roe > 15 THEN 15
                    ELSE IF r.roe < 5 THEN 0 - 10 ELSE 0
               ELSE 0)
            + (IF r.de # 0
               THEN IF r.de < 50 THEN 10
                    ELSE IF r.de > 200 THEN 0 - 15 ELSE 0
               ELSE 0)

\* The total with the technical score taken unweighted.
total_score_RawTechnical(technical, sentiment, fundamental) ==
    UNIT * technical + W_SENT * sentiment + W_FUND * fundamental

\* Lines 109-113: the total, in twentieths.
total_score(technical, sentiment, fundamental) ==
    W_TECH * technical + W_SENT * sentiment + W_FUND * fundamental

\* _score_to_signal with the first bound exclusive.
score_to_signal_Strict(score) ==
    IF score > 50 * UNIT THEN "STRONG_BUY"
    ELSE IF score >= 20 * UNIT THEN "BUY"
    ELSE IF score <= (0 - 50) * UNIT THEN "STRONG_SELL"
    ELSE IF score <= (0 - 20) * UNIT THEN "SELL"
    ELSE "HOLD"

\* _score_to_signal (345-356); score in twentieths.
score_to_signal(score) ==
    IF score >= 50 * UNIT THEN "STRONG_BUY"
    ELSE IF score >= 20 * UNIT THEN "BUY"
    ELSE IF score <= (0 - 50) * UNIT THEN "STRONG_SELL"
    ELSE IF score <= (0 - 20) * UNIT THEN "SELL"
    ELSE "HOLD"

\* _calculate_targets with the buy side's levels for every signal.
calculate_targets_BuySideOnly(d, signal, current_price) ==
    IF signal = "HOLD" THEN << <<>>, <<>> >>
    ELSE
      LET atr == IF d.atr # <<>> THEN d.atr[1]
                 ELSE (current_price * 2) \div 100
      IN << <<current_price + atr * 3>>,
            <<current_price - (atr * 3) \div 2>> >>

\* _calculate_targets (358-378): <<target, stop_loss>>, each None or a price.
calculate_targets(d, signal, current_price) ==
    IF signal = "HOLD" THEN << <<>>, <<>> >>
    ELSE
      LET atr == IF d.atr # <<>> THEN d.atr[1]
                 ELSE (current_price * 2) \div 100
      IN IF signal \in {"STRONG_BUY", "BUY"}
         THEN << <<current_price + atr * 3>>,
                 <<current_price - (atr * 3) \div 2>> >>
         ELSE << <<current_price - atr * 3>>,
                 <<current_price + (atr * 3) \div 2>> >>

\* StrategyEngine.analyze_stock (81-143): None or the TradingSignal;
\* confidence in the unit of total / 100.
strategy_analyze_stock(d, news, ratios) ==
    IF d.fails \/ d.nbars < ENGINE_MIN_BARS THEN <<>>
    ELSE
      LET technical   == calculate_technical_score(d)
          sentiment   == calculate_sentiment_score(news)
          fundamental == calculate_fundamental_score(ratios)
          total       == total_score(technical, sentiment, fundamental)
          signal      == score_to_signal(total)
          targets     == calculate_targets(d, signal, d.close)
          magnitude   == IF total < 0 THEN 0 - total ELSE total
      IN << [signal |-> signal,
             confidence |-> IF magnitude < 100 * UNIT THEN magnitude
                            ELSE 100 * UNIT,
             price |-> d.close,
             target_price |-> targets[1], stop_loss |-> targets[2],
             technical_score |-> technical,
             sentiment_score |-> sentiment,
             fundamental_score |-> fundamental,
             total |-> total] >>

\* The frames the model gives the engine.  The close is 20000.
EngineClose == 20000

RsiInputs == {<<>>, <<25>>, <<35>>, <<50>>, <<65>>, <<75>>}

\* MACD minus its signal line on the last bar and on the bar before it:
\* below, on, above.
MacdInputs ==
    {<<>>} \cup
    {<<[macd |-> a, signal |-> 0, macd_prev |-> b, signal_prev |-> 0]>> :
       a \in {0 - 1, 0, 1}, b \in {0 - 1, 0, 1}}

SmaInputs ==
    {<<>>} \cup
    {<<[sma20 |-> a, sma50 |-> b]>> : a \in {19000, 21000},
                                      b \in {18000, 22000}}

\* The close below the lower band, above the upper band, between the bands.
BollingerInputs ==
    {<<>>, <<[upper |-> 22000, lower |-> 20500]>>,
           <<[upper |-> 19500, lower |-> 18000]>>,
           <<[upper |-> 22000, lower |-> 18000]>>}

\* Twice, 0.4 times and once the average volume.
VolumeInputs ==
    {<<>>, <<[volume |-> 200, vol_sma |-> 100]>>,
           <<[volume |-> 40, vol_sma |-> 100]>>,
           <<[volume |-> 100, vol_sma |-> 100]>>}

\* The close at iloc[-5]: flat, a return above 5%, one below -5%.
Close5Inputs == {20000, 18000, 22000}

AtrInputs == {<<>>, <<1000>>}

\* News and ratios: none; good news; good ratios; both good; both bad.
\* A sentiment of 0.8 scores 40, which with ratios scoring 40 and a
\* technical score of 65 makes a total of exactly 50.
Ratios(pe, roe, de) == [pe |-> pe, roe |-> roe, de |-> de]

NewsAndRatios ==
    { << <<>>, <<>> >>,
      << <<50>>, <<>> >>,
      << <<>>, <<Ratios(10, 20, 30)>> >>,
      << <<40>>, <<Ratios(10, 20, 30)>> >>,
      << <<0 - 40>>, <<Ratios(0 - 5, 3, 250)>> >> }

NoFrame == Frame(TRUE, 0, 0, 0, <<>>, <<>>, <<>>, <<>>, <<>>, <<>>)

\* calculate_technical_indicators (market_data.py:178-212) adds the columns
\* in the order SMA, RSI, MACD, Bollinger, ATR, volume average, and returns
\* what it has added so far when a step raises: a column is there only if
\* the columns before it are.
Computed(d) ==
    /\ d.rsi # <<>> => d.sma # <<>>
    /\ d.macd # <<>> => d.rsi # <<>>
    /\ d.bb # <<>> => d.macd # <<>>
    /\ d.atr # <<>> => d.bb # <<>>
    /\ d.vol # <<>> => d.atr # <<>>

Frames ==
    {NoFrame, Frame(FALSE, 49, EngineClose, EngineClose, <<>>, <<>>, <<>>,
                    <<>>, <<>>, <<>>)}
    \cup {d \in {Frame(FALSE, 60, EngineClose, c5, rsi, macd, sma, bb, vol,
                       atr) :
                   c5 \in Close5Inputs, rsi \in RsiInputs,
                   macd \in MacdInputs, sma \in SmaInputs,
                   bb \in BollingerInputs, vol \in VolumeInputs,
                   atr \in AtrInputs} : Computed(d)}

(* ----------------------------- trading API ----------------------------- *)
(* backend/app/routers/trading.py and portfolio.py over the tables         *)
(* balance, balance_history, portfolio and trades.  Cash, prices and       *)
(* trade values are whole VND: prices and quantities are multiples of 100, *)
(* so that the commission of 0.15% is a whole number.  avg_buy_price and   *)
(* total_cost are quotients the code keeps as doubles; the model keeps     *)
(* them as exact fractions [num, den] in lowest terms.                     *)
(*                                                                         *)
(* Every request runs in its own AsyncSession (database.py:37-46).  A      *)
(* handler is a coroutine: at each await of the session other requests     *)
(* run, so a handler is modelled as the sequence of its steps, one per     *)
(* read of the database and one for its commit.  A session keeps the rows  *)
(* it has read: a later select of a row it holds returns the object it     *)
(* holds, with the values the session has (expire_on_commit=False,         *)
(* database.py:22-26), and a commit writes the columns the session         *)
(* changed.                                                                *)

\* config.py:39, settings.max_stocks_in_portfolio.
MAX_STOCKS == 5

\* trading.py:421, the least balance execute_auto_trade trades with.
MIN_AUTO_CASH == 100000

\* get_vn30_symbols (market_data.py:52-65).
VN30 ==
    <<"ACB", "BCM", "BID", "BVH", "CTG", "FPT", "GAS", "GVR",
      "HDB", "HPG", "MBB", "MSN", "MWG", "NVL", "PDR", "PLX",
      "PNJ", "POW", "SAB", "SSI", "STB", "TCB", "TPB", "VCB",
      "VHM", "VIB", "VIC", "VJC", "VNM", "VPB", "VRE">>

\* The settings that select the mode: is_ssi_configured() and
\* settings.enable_auto_trading (config.py:61, 72-74).
Config(ssi, auto) == [ssi_configured |-> ssi, enable_auto_trading |-> auto]

\* trading.py:137: orders go to the broker.
Live(cfg) == cfg.ssi_configured /\ cfg.enable_auto_trading

\* Fractions in lowest terms, for non-negative numerators.
RECURSIVE GCD(_, _)
GCD(a, b) == IF b = 0 THEN a ELSE GCD(b, a % b)

Fraction(num, den) ==
    LET g == GCD(num, den) IN [num |-> num \div g, den |-> den \div g]

Whole(n) == [num |-> n, den |-> 1]

\* q + n, q / k and k * q for a fraction q and whole n, k.
FractionPlus(q, n) == Fraction(q.num + n * q.den, q.den)
FractionOver(q, k) == Fraction(q.num, q.den * k)
FractionTimes(k, q) ==
    LET g == GCD(k, q.den) IN Fraction((k \div g) * q.num, q.den \div g)

\* The rows of the tables.
BalanceRow(cash, deposits) == [cash_balance |-> cash, total_deposits |-> deposits]

PortfolioRow(quantity, avg_buy_price, total_cost) ==
    [quantity |-> quantity, avg_buy_price |-> avg_buy_price,
     total_cost |-> total_cost]

BalanceHistoryRow(type, amount, before, after) ==
    [transaction_type |-> type, amount |-> amount, balance_before |-> before,
     balance_after |-> after]

\* OrderRequest (trading.py:28-33); price <<>> is a market order.
OrderRequest(symbol, side, quantity, price) ==
    [symbol |-> symbol, side |-> side, quantity |-> quantity, price |-> price]

\* The portfolio table: a row per symbol that has one (symbol is unique,
\* models/portfolio.py:13).
NoRows == [s \in {} |-> PortfolioRow(0, Whole(0), Whole(0))]

Put(f, k, v) == [x \in DOMAIN f \cup {k} |-> IF x = k THEN v ELSE f[x]]

\* The empty database.  balance is the list of the rows of the balance
\* table in the order they were inserted; select(Balance).limit(1) gives
\* the first.
NoDb ==
    [balance |-> <<>>, portfolio |-> NoRows, trades |-> <<>>,
     balance_history |-> <<>>]

\* trading.py:133, commission = total_value * 0.0015.
Commission(total_value) == (total_value * 15) \div 10000

(* The session of one request: the objects it holds.  An object has the   *)
(* values the session gave it (cur) and, when it was read from the table, *)
(* the values it was read with (old); old is <<>> for an object the       *)
(* session made and has not inserted yet.                                 *)
Held(cur, old) == [cur |-> cur, old |-> old]

NoSession ==
    [balance |-> <<>>, positions |-> [s \in {} |-> Held(0, <<>>)],
     trades |-> <<>>, history |-> <<>>]

\* select(Balance).limit(1): the object the session holds, or the first
\* row of the table.
SelectBalance(d, session) ==
    IF session.balance # <<>> \/ d.balance = <<>> THEN session
    ELSE [session EXCEPT
            !.balance = <<Held(d.balance[1], <<d.balance[1]>>)>>]

\* select(Portfolio).where(Portfolio.symbol == symbol).
SelectPosition(d, session, symbol) ==
    IF symbol \in DOMAIN session.positions \/ symbol \notin DOMAIN d.portfolio
    THEN session
    ELSE [session EXCEPT
            !.positions = Put(@, symbol, Held(d.portfolio[symbol],
                                              <<d.portfolio[symbol]>>))]

\* The rows of `portfolio` with quantity > 0 (trading.py:425-429).
HeldSymbols(d) ==
    {s \in DOMAIN d.portfolio : d.portfolio[s].quantity > 0}

\* select(Portfolio).where(Portfolio.quantity > 0): the rows are chosen by
\* the table, the objects the session holds keep their values.
SelectHeld(d, session) ==
    [session EXCEPT
       !.positions =
          [s \in DOMAIN @ \cup HeldSymbols(d) |->
             IF s \in DOMAIN @ THEN @[s]
             ELSE Held(d.portfolio[s], <<d.portfolio[s]>>)]]

\* The UPDATE of a row: the columns the session changed.
Changed(row, held) ==
    [f \in DOMAIN held.cur |->
       IF held.cur[f] # held.old[1][f] THEN held.cur[f] ELSE row[f]]

\* The INSERT of a position finds the symbol in the table: IntegrityError.
Conflicts(d, session) ==
    \E s \in DOMAIN session.positions :
      session.positions[s].old = <<>> /\ s \in DOMAIN d.portfolio

\* session.commit() without conflict: the tables afterwards.
CommitSession(d, session) ==
    [balance |->
        IF session.balance = <<>> THEN d.balance
        ELSE IF session.balance[1].old = <<>>
        THEN Append(d.balance, session.balance[1].cur)
        ELSE [d.balance EXCEPT ![1] = Changed(@, session.balance[1])],
     portfolio |->
        [s \in DOMAIN d.portfolio \cup DOMAIN session.positions |->
           IF s \notin DOMAIN session.positions THEN d.portfolio[s]
           ELSE IF session.positions[s].old = <<>>
           THEN session.positions[s].cur
           ELSE Changed(d.portfolio[s], session.positions[s])],
     trades |-> d.trades \o session.trades,
     balance_history |-> d.balance_history \o session.history]

\* The session after its commit: its objects are the rows it wrote.
Committed(session) ==
    [balance |->
        IF session.balance = <<>> THEN <<>>
        ELSE <<Held(session.balance[1].cur, <<session.balance[1].cur>>)>>,
     positions |->
        [s \in DOMAIN session.positions |->
           Held(session.positions[s].cur, <<session.positions[s].cur>>)],
     trades |-> <<>>, history |-> <<>>]

\* What a flush of the session writes: a row it made, a column it
\* changed.  A value set to what the row holds already is no change.
Pending(session) ==
    \/ session.trades # <<>>
    \/ session.history # <<>>
    \/ /\ session.balance # <<>>
       /\ \/ session.balance[1].old = <<>>
          \/ session.balance[1].cur # session.balance[1].old[1]
    \/ \E s \in DOMAIN session.positions :
         \/ session.positions[s].old = <<>>
         \/ session.positions[s].cur # session.positions[s].old[1]

\* Balance(cash_balance=cash), added to the session: the other columns get
\* their defaults when the row is inserted (models/balance.py:22-26).
WithNewBalance(session, cash) ==
    [session EXCEPT !.balance = <<Held(BalanceRow(cash, 0), <<>>)>>]

(* A request in flight: the handler's position (pc), its session and its  *)
(* locals.  Every step gives the tables and the request after it; a       *)
(* request that has answered has pc "done" and its status.  A session     *)
(* that has flushed rows before its commit is in a transaction of the     *)
(* SQLite file (config.py:25) and holds its write lock (locked) until the *)
(* commit or the rollback.                                                *)
NoOrder == OrderRequest("", "", 0, <<>>)

Run(kind) ==
    [kind |-> kind, pc |-> "start", status |-> "none", session |-> NoSession,
     amount |-> 0, order |-> NoOrder, quote |-> <<>>, trade |-> <<>>,
     cash |-> 0, num_positions |-> 0, picks |-> <<>>, i |-> 0, placed |-> 0,
     report |-> <<>>, locked |-> FALSE]

Idle == Run("idle")

Step(d, r) == [db |-> d, run |-> r]

\* The handler returns or raises: get_db commits or rolls back what is
\* left of the session, the request is answered with the status.
Done(r, status) ==
    [r EXCEPT !.pc = "done", !.status = status, !.locked = FALSE]

\* The requests: their arguments.
BalanceRequest == Run("balance")
DepositRequest(amount) == [Run("deposit") EXCEPT !.amount = amount]
OrderRun(order, quote) == [Run("order") EXCEPT !.order = order, !.quote = quote]
AutoRequest == Run("auto")
SyncRequest(report) == [Run("sync") EXCEPT !.report = report]

(* get_balance (portfolio.py:150-163).                                    *)
\* Lines 154-160: the select; a row found is the answer, else a new
\* Balance(cash_balance=0.0) is added.
BalanceSelect(d, r) ==
    LET session == SelectBalance(d, r.session)
    IN IF session.balance # <<>>
       THEN Step(d, Done([r EXCEPT !.session = session], "200"))
       ELSE Step(d, [r EXCEPT !.pc = "commit",
                              !.session = WithNewBalance(session, 0)])

\* Lines 161-164: the commit inserts the row.
BalanceInsert(d, r) ==
    Step(CommitSession(d, r.session),
         Done([r EXCEPT !.session = Committed(@)], "200"))

(* deposit_funds (portfolio.py:167-204).                                  *)
\* Lines 173-196.  With no balance row the handler makes
\* Balance(cash_balance=0.0), whose total_deposits is None until the row
\* is inserted: line 186 raises and the session is rolled back.
DepositSelect(d, r) ==
    IF r.amount <= 0 THEN Step(d, Done(r, "400"))
    ELSE
      LET session == SelectBalance(d, r.session)
      IN IF session.balance = <<>> THEN Step(d, Done(r, "500"))
         ELSE
           LET balance == session.balance[1].cur
               after   == balance.cash_balance + r.amount
           IN Step(d, [r EXCEPT
                 !.pc = "commit",
                 !.session =
                    [session EXCEPT
                       !.balance[1].cur =
                          BalanceRow(after, balance.total_deposits + r.amount),
                       !.history =
                          Append(@, BalanceHistoryRow("DEPOSIT", r.amount,
                                                      balance.cash_balance,
                                                      after))]])

\* Lines 198-204: the commit.
DepositCommit(d, r) ==
    Step(CommitSession(d, r.session),
         Done([r EXCEPT !.session = Committed(@)], "200"))

(* place_order (trading.py:75-188) and _update_portfolio_after_trade.     *)
\* The Trade row place_order creates (127-135), status PENDING.
TradeRow(order, price) ==
    [symbol |-> order.symbol, trade_type |-> order.side,
     quantity |-> order.quantity, price |-> price,
     total_value |-> price * order.quantity,
     commission |-> Commission(price * order.quantity),
     status |-> "PENDING", filled_quantity |-> <<>>, filled_price |-> <<>>]

\* Lines 105-112: the balance test of a BUY, on the balance the session
\* holds.
BalanceCovers(session, trade) ==
    /\ session.balance # <<>>
    /\ ~(session.balance[1].cur.cash_balance < trade.total_value)

\* Lines 115-124: the position test of a SELL.
PositionCovers(session, order) ==
    /\ order.symbol \in DOMAIN session.positions
    /\ ~(session.positions[order.symbol].cur.quantity < order.quantity)

\* Lines 86-135: the order is refused with 400, or its Trade row is made.
\* The quote is what get_current_price returns for a market order.
OrderCheck(d, r) ==
    IF r.order.side \notin {"BUY", "SELL"} THEN Step(d, Done(r, "400"))
    ELSE
      LET price == IF r.order.price # <<>> /\ r.order.price[1] # 0
                   THEN r.order.price ELSE r.quote
      IN IF price = <<>> \/ price[1] = 0 THEN Step(d, Done(r, "400"))
         ELSE
           LET trade   == TradeRow(r.order, price[1])
               session == IF r.order.side = "BUY"
                          THEN SelectBalance(d, r.session)
                          ELSE SelectPosition(d, r.session, r.order.symbol)
               checked == [r EXCEPT !.session = session]
           IN IF r.order.side = "BUY" /\ ~BalanceCovers(session, trade)
              THEN Step(d, Done(checked, "400"))
              ELSE IF r.order.side = "SELL" /\ ~PositionCovers(session, r.order)
              THEN Step(d, Done(checked, "400"))
              ELSE Step(d, [checked EXCEPT !.pc = "placed",
                                           !.trade = <<trade>>])

\* Lines 206-237 of _update_portfolio_after_trade: a filled BUY, on the
\* objects of the session.
AfterBuy(session, trade) ==
    LET balance == session.balance[1].cur
        debit   == trade.total_value + trade.commission
        held    == IF trade.symbol \in DOMAIN session.positions
                   THEN LET position     == session.positions[trade.symbol]
                            total_shares == position.cur.quantity + trade.quantity
                            total_cost   == FractionPlus(position.cur.total_cost,
                                                         trade.total_value)
                        IN [position EXCEPT
                              !.cur = PortfolioRow(
                                         total_shares,
                                         FractionOver(total_cost, total_shares),
                                         total_cost)]
                   ELSE Held(PortfolioRow(trade.quantity, Whole(trade.price),
                                          Whole(trade.total_value)), <<>>)
    IN [session EXCEPT
          !.positions = Put(@, trade.symbol, held),
          !.balance[1].cur.cash_balance = @ - debit,
          !.history =
             Append(@, BalanceHistoryRow("BUY", 0 - debit, balance.cash_balance,
                                         balance.cash_balance - debit))]

\* Lines 239-259 of _update_portfolio_after_trade: a filled SELL.
AfterSell(session, trade) ==
    LET balance      == session.balance[1].cur
        net_proceeds == trade.total_value - trade.commission
        positions    ==
           IF trade.symbol \notin DOMAIN session.positions
           THEN session.positions
           ELSE LET position == session.positions[trade.symbol].cur
                    quantity == position.quantity - trade.quantity
                IN [session.positions EXCEPT
                      ![trade.symbol].cur =
                         IF quantity > 0
                         THEN [position EXCEPT
                                 !.quantity = quantity,
                                 !.total_cost =
                                    FractionTimes(quantity,
                                                  position.avg_buy_price)]
                         ELSE [position EXCEPT !.quantity = quantity]]
    IN [session EXCEPT
          !.positions = positions,
          !.balance[1].cur.cash_balance = @ + net_proceeds,
          !.history =
             Append(@, BalanceHistoryRow("SELL", net_proceeds,
                                         balance.cash_balance,
                                         balance.cash_balance + net_proceeds))]

\* Line 210 divides by the shares held after the BUY.
DividesByZero(session, trade) ==
    /\ trade.trade_type = "BUY"
    /\ trade.symbol \in DOMAIN session.positions
    /\ session.positions[trade.symbol].cur.quantity + trade.quantity = 0

\* _update_portfolio_after_trade (191-259): the position and the balance
\* are selected (194-204), then changed in the session.
update_portfolio_after_trade(d, session, trade) ==
    LET position == SelectPosition(d, session, trade.symbol)
        found    == SelectBalance(d, position)
        balance  == IF found.balance = <<>> THEN WithNewBalance(found, 0)
                    ELSE found
    IN IF trade.trade_type = "BUY" THEN AfterBuy(balance, trade)
       ELSE AfterSell(balance, trade)

\* Lines 153-162, paper mode: the trade is FILLED at the requested price
\* and quantity and the portfolio is updated in the session.  Of the two
\* selects of _update_portfolio_after_trade one reads the table: the
\* session holds the balance of a BUY and the position of a SELL since the
\* test of the order.
OrderFill(d, r) ==
    LET filled == [r.trade[1] EXCEPT
                     !.status = "FILLED",
                     !.filled_quantity = <<r.order.quantity>>,
                     !.filled_price = <<r.trade[1].price>>]
        read   == SelectBalance(d, SelectPosition(d, r.session,
                                                  filled.symbol))
    IN IF DividesByZero(read, filled) THEN Step(d, Done(r, "500"))
       ELSE Step(d, [r EXCEPT
                       !.pc = "commit",
                       !.trade = <<filled>>,
                       !.session =
                          [update_portfolio_after_trade(d, r.session, filled)
                             EXCEPT !.trades = Append(@, filled)]])

\* Lines 164-188, paper mode: the commit.  An INSERT of a position whose
\* symbol has a row by now raises IntegrityError: the answer is 500 and
\* nothing of the session is written.
OrderCommit(d, r) ==
    IF Conflicts(d, r.session) THEN Step(d, Done(r, "500"))
    ELSE Step(CommitSession(d, r.session),
              Done([r EXCEPT !.session = Committed(@)], r.trade[1].status))

\* place_order applying a live order to the portfolio before the broker
\* has answered.
OrderSend_UpdatesBeforeBroker(d, r, accepted) ==
    LET sent == IF accepted THEN r.trade[1]
                ELSE [r.trade[1] EXCEPT !.status = "REJECTED"]
        session == [update_portfolio_after_trade(d, r.session, sent)
                      EXCEPT !.trades = Append(@, sent)]
    IN Step(CommitSession(d, session),
            Done([r EXCEPT !.trade = <<sent>>,
                           !.session = Committed(session)],
                 sent.status))

\* Lines 137-152 and 164-188, live mode: the broker takes the order
\* (PENDING) or not (REJECTED); the Trade row is all that is written.
OrderSend(d, r, accepted) ==
    LET sent == IF accepted THEN r.trade[1]
                ELSE [r.trade[1] EXCEPT !.status = "REJECTED"]
        session == [r.session EXCEPT !.trades = Append(@, sent)]
    IN Step(CommitSession(d, session),
            Done([r EXCEPT !.trade = <<sent>>,
                           !.session = Committed(session)],
                 sent.status))

\* get_balance with no other request between its steps.
get_balance(d) ==
    LET a == BalanceSelect(d, BalanceRequest)
    IN IF a.run.pc = "done" THEN a ELSE BalanceInsert(a.db, a.run)

\* deposit_funds with no other request between its steps.
deposit_funds(d, amount) ==
    LET a == DepositSelect(d, DepositRequest(amount))
    IN IF a.run.pc = "done" THEN a ELSE DepositCommit(a.db, a.run)

\* place_order with no other request between its steps.
place_order(d, order, quote, cfg, accepted) ==
    LET a == OrderCheck(d, OrderRun(order, quote))
    IN IF a.run.pc = "done" THEN a
       ELSE IF Live(cfg) THEN OrderSend(a.db, a.run, accepted)
       ELSE LET f == OrderFill(a.db, a.run)
            IN IF f.run.pc = "done" THEN f ELSE OrderCommit(f.db, f.run)

\* strategy.py:418, lot_size.
LOT_SIZE == 100

\* calculate_position_size rounding to the nearest lot.
calculate_position_size_Nearest(available_cash, stock_price, num_stocks_to_buy) ==
    LET shares  == available_cash \div (num_stocks_to_buy * stock_price)
        rounded == ((shares + LOT_SIZE \div 2) \div LOT_SIZE) * LOT_SIZE
    IN IF rounded >= LOT_SIZE
       THEN IF rounded > LOT_SIZE THEN rounded ELSE LOT_SIZE
       ELSE 0

\* calculate_position_size (strategy.py:402-427) for whole amounts:
\* int((available_cash / n) / price) is the whole part of
\* available_cash / (n * price).
calculate_position_size(available_cash, stock_price, num_stocks_to_buy) ==
    LET shares  == available_cash \div (num_stocks_to_buy * stock_price)
        rounded == (shares \div LOT_SIZE) * LOT_SIZE
    IN IF rounded >= LOT_SIZE
       THEN IF rounded > LOT_SIZE THEN rounded ELSE LOT_SIZE
       ELSE 0

\* One analysis as get_top_picks sees it.
Pick(symbol, signal, confidence, price) ==
    [symbol |-> symbol, signal |-> signal, confidence |-> confidence,
     price |-> price]

\* signals.sort(key=confidence, reverse=True) (strategy.py:399): stable.
RECURSIVE SortByConfidence(_, _)
SortByConfidence(done, rest) ==
    IF rest = <<>> THEN done
    ELSE
      LET x    == Head(rest)
          k    == Cardinality({i \in 1..Len(done) :
                                 done[i].confidence >= x.confidence})
      IN SortByConfidence(SubSeq(done, 1, k) \o <<x>>
                            \o SubSeq(done, k + 1, Len(done)),
                          Tail(rest))

\* The Python slice s[:n]: a negative n counts from the end.
SliceTo(s, n) ==
    IF n >= 0 THEN SubSeq(s, 1, IF n < Len(s) THEN n ELSE Len(s))
    ELSE SubSeq(s, 1, IF Len(s) + n > 0 THEN Len(s) + n ELSE 0)

\* get_top_picks (strategy.py:380-400) over the analyses of the VN30
\* symbols, in the order of the list; a failed analysis is not in it.
get_top_picks(analyses, num_picks) ==
    SliceTo(SortByConfidence(<<>>,
              SelectSeq(analyses,
                        LAMBDA a : a.signal \in {"STRONG_BUY", "BUY"})),
            num_picks)


(* execute_auto_trade (trading.py:398-462).                               *)
\* Lines 409-422: the balance the run sizes its orders from.
AutoBalance(d, r, cfg) ==
    IF ~cfg.enable_auto_trading THEN Step(d, Done(r, "400"))
    ELSE
      LET session        == SelectBalance(d, r.session)
          available_cash == IF session.balance = <<>> THEN 0
                            ELSE session.balance[1].cur.cash_balance
          read           == [r EXCEPT !.session = session,
                                      !.cash = available_cash]
      IN IF available_cash < MIN_AUTO_CASH THEN Step(d, Done(read, "200"))
         ELSE Step(d, [read EXCEPT !.pc = "positions"])

\* Line 442: the size of the order for picks[i].
PickQuantity(r, i) ==
    calculate_position_size(r.cash, r.picks[i].price, Len(r.picks))

\* Lines 437-446: the loop goes on to the next pick that is ordered, or the
\* run answers.
RECURSIVE Upcoming(_)
Upcoming(r) ==
    IF r.i > Len(r.picks) THEN Done(r, "200")
    ELSE IF /\ r.picks[r.i].signal \in {"STRONG_BUY", "BUY"}
            /\ PickQuantity(r, r.i) > 0
    THEN [r EXCEPT !.pc = "pick"]
    ELSE Upcoming([r EXCEPT !.i = @ + 1])

\* Lines 425-434: the positions are counted and the picks asked for.
AutoPositions(d, r, analyses) ==
    LET num_positions == Cardinality(HeldSymbols(d))
        picks         == get_top_picks(analyses, MAX_STOCKS - num_positions)
    IN Step(d, Upcoming([r EXCEPT !.session = SelectHeld(d, @),
                                  !.num_positions = num_positions,
                                  !.picks = picks, !.i = 1]))

\* The run goes on after the order for picks[i] was placed.
Placed(r) ==
    Upcoming([r EXCEPT !.i = @ + 1, !.placed = @ + 1, !.status = "none"])

\* Lines 446-453: place_order for picks[i] in the session of the run, up
\* to its commit.  An order that place_order refuses raises
\* HTTPException(400), which line 460 turns into 500; the orders
\* committed before stay.
AutoOrder(d, r, cfg, accepted) ==
    LET pick    == r.picks[r.i]
        order   == OrderRequest(pick.symbol, "BUY", PickQuantity(r, r.i),
                                <<pick.price>>)
        checked == OrderCheck(d, [r EXCEPT !.order = order, !.quote = <<>>])
    IN IF checked.run.pc = "done" THEN Step(d, Done(checked.run, "500"))
       ELSE IF Live(cfg)
       THEN LET sent == OrderSend(d, checked.run, accepted)
            IN Step(sent.db, Placed(sent.run))
       ELSE LET filled == OrderFill(d, checked.run)
            IN IF filled.run.pc = "done" THEN filled
               ELSE Step(d, [filled.run EXCEPT !.pc = "pick_commit"])

\* The commit of place_order in the run (164-166), then the next pick.
AutoCommit(d, r) ==
    LET a == OrderCommit(d, r)
    IN IF a.run.status = "500" THEN a ELSE Step(a.db, Placed(a.run))

(* sync_with_ssi (portfolio.py:259-323).                                  *)
\* What the broker reports: the positions (None or a list of items) and
\* the account balance (None or cashBalance).
Report(portfolio, cashBalance) ==
    [portfolio |-> portfolio, cashBalance |-> cashBalance]

Item(symbol, quantity, avgPrice) ==
    [symbol |-> symbol, quantity |-> quantity, avgPrice |-> avgPrice]

\* Lines 281-301: the position of one item is found or made.
SyncItem(d, session, item) ==
    LET found == SelectPosition(d, session, item.symbol)
        row   == PortfolioRow(item.quantity, Whole(item.avgPrice),
                              Whole(item.quantity * item.avgPrice))
    IN IF item.symbol \in DOMAIN found.positions
       THEN [found EXCEPT !.positions[item.symbol].cur = row]
       ELSE [found EXCEPT !.positions = Put(@, item.symbol, Held(row, <<>>))]

\* Lines 303-313: the balance row takes the broker's cash.
SyncBalance(d, session, cashBalance) ==
    LET found == SelectBalance(d, session)
    IN IF found.balance # <<>>
       THEN [found EXCEPT !.balance[1].cur.cash_balance = cashBalance[1]]
       ELSE WithNewBalance(found, cashBalance[1])

\* Where the handler goes on after item i of the report: to the select of
\* the next item (286), to the select of the balance (305) or to the
\* commit (315).
SyncAfter(r) ==
    IF r.i < Len(r.report.portfolio) THEN [r EXCEPT !.pc = "item"]
    ELSE IF r.report.cashBalance # <<>> THEN [r EXCEPT !.pc = "balance"]
    ELSE [r EXCEPT !.pc = "commit"]

\* Lines 262-301 up to the first item: 400 without broker credentials, 500
\* when the broker gives no portfolio, else the position of the first
\* item is selected and set.
SyncFetch(d, r, cfg) ==
    IF ~cfg.ssi_configured THEN Step(d, Done(r, "400"))
    ELSE IF r.report.portfolio = <<>> THEN Step(d, Done(r, "500"))
    ELSE Step(d, SyncAfter([r EXCEPT
                              !.i = 1,
                              !.session = SyncItem(d, @, r.report.portfolio[1])]))

\* Lines 281-301 for the next item.  Its select first flushes what the
\* session has added or changed: the INSERT of a position whose symbol
\* has a row by now raises IntegrityError, which line 321 answers with
\* 500; a flush that wrote leaves the session in its transaction.
SyncNextItem(d, r) ==
    IF Conflicts(d, r.session) THEN Step(d, Done(r, "500"))
    ELSE Step(d, SyncAfter([r EXCEPT
                              !.i = @ + 1,
                              !.locked = Pending(r.session),
                              !.session =
                                 SyncItem(d, @, r.report.portfolio[r.i + 1])]))

\* Lines 303-313: the select of the balance, after the same flush.
SyncCash(d, r) ==
    IF Conflicts(d, r.session) THEN Step(d, Done(r, "500"))
    ELSE Step(d, [r EXCEPT
                    !.pc = "commit",
                    !.locked = Pending(r.session),
                    !.session = SyncBalance(d, @, r.report.cashBalance)])

\* Lines 315-323: the commit writes what the session holds and ends its
\* transaction.
SyncCommit(d, r) ==
    IF Conflicts(d, r.session) THEN Step(d, Done(r, "500"))
    ELSE Step(CommitSession(d, r.session),
              Done([r EXCEPT !.session = Committed(@)], "200"))

(* The requests the model sends.                                          *)
\* The clients of the API: each has at most one request in flight.
Clients == {"c1", "c2"}

\* Bounds of the trading API runs: the requests sent to the API, the
\* orders sent by hand before and during an auto-trade run, the runs.
MaxOrders == 4
MaxManual == 2
MaxAutoRuns == 1

DepositAmounts == {2000000, 4006000}

\* Orders of one lot of ACB or BCM, at a limit price or at the market.
Orders ==
    {OrderRequest(s, side, 100, price) :
       s \in {"ACB", "BCM"}, side \in {"BUY", "SELL"},
       price \in {<<>>, <<20000>>, <<22000>>}}

\* get_current_price for a market order: None, or the last close.
Quotes == {<<>>, <<20000>>}

\* What the broker reports to sync_with_ssi: nothing, or one or two
\* positions, with the cash of the account or without.
Reports ==
    {Report(<<>>, <<>>),
     Report(<<Item("ACB", 500, 21000)>>, <<>>),
     Report(<<Item("ACB", 500, 21000)>>, <<123>>),
     Report(<<Item("ACB", 500, 21000), Item("BCM", 300, 22000)>>, <<123>>)}

\* The settings: paper mode, live mode, paper mode with auto-trading on,
\* paper mode with broker credentials.
PaperConfig == Config(FALSE, FALSE)
LiveConfig == Config(TRUE, TRUE)
PaperAutoConfig == Config(FALSE, TRUE)
PaperSsiConfig == Config(TRUE, FALSE)

\* The account execute_auto_trade is tried on: funded once, well or barely.
OpeningDeposits == {16000000, 50000}

\* The price of the manual orders that build the portfolio up.
BuildUpPrice == 20000

\* The orders sent by hand while execute_auto_trade is tried: one lot of
\* each of the first symbols of the list, one order after the other.
ManualOrders ==
    [k \in 1..Len(VN30) |-> OrderRequest(VN30[k], "BUY", 100, <<BuildUpPrice>>)]

\* The manual orders placed before the model starts.
AlreadyPlaced == {0, 4}

\* What analyze_stock gave for the symbols of the list that could be
\* analysed: confidence in hundredths.
Candidates ==
    {Pick("ACB", "BUY", 30, 20000), Pick("FPT", "SELL", 45, 20000),
     Pick("GAS", "STRONG_BUY", 60, 20000), Pick("GVR", "BUY", 40, 25000)}

\* The analyses of a subset of the candidates, in the order of the list.
RECURSIVE InListOrder(_, _)
InListOrder(i, chosen) ==
    IF i > Len(VN30) THEN <<>>
    ELSE LET here == {c \in chosen : c.symbol = VN30[i]}
         IN (IF here = {} THEN <<>> ELSE <<CHOOSE c \in here : TRUE>>)
              \o InListOrder(i + 1, chosen)

AnalysesInputs == {InListOrder(1, chosen) : chosen \in SUBSET Candidates}

\* The arguments of calculate_position_size.
SizeCash == {0, 1999900, 2000000, 2500000, 4000000, 6030000, 7500000}
SizePrices == {10000, 20000, 20100, 25000}
SizeCounts == {1, 2, 3}

(* ------------------------------- state --------------------------------- *)

VARIABLES
    file,      \* portfolio_data.json: [state, doc]
    nops,      \* operations started so far
    last_op,   \* the operation that wrote the file last
    pc,        \* per process: "idle", or "loaded" inside auto_trade
    mem,       \* per process: the document load_portfolio returned
    obs,       \* history variable: what the data feed gave the last tick
    sig,       \* the strategy engine: the data of one analysis, its signal
    cfg,       \* the settings of the trading API
    db,        \* the tables of the trading API
    req,       \* the requests counted, the last request answered
    inflight   \* per client of the trading API: its request in flight

vars == <<file, nops, last_op, pc, mem, obs, sig, cfg, db, req, inflight>>

\* The processes that may run the script at the same time (cron, a shell).
Procs == {"p1", "p2"}

\* datetime.now(): operations are stamped in the order they run, the
\* stamp being the ordinal of the operation.
Now == nops

\* The content of `doc` while the file holds no complete document.
NoDoc ==
    [initial_budget |-> 0, cash |-> 0, positions |-> <<>>,
     closed_positions |-> <<>>, trades |-> <<>>, history |-> <<>>,
     last_updated |-> 0]

Complete(doc) == [state |-> "complete", doc |-> doc]

\* The value of obs when the last operation was not an observed tick.
NoObs ==
    [seen |-> FALSE, stale |-> {},
     hist |-> [s \in Symbols |-> NoBars]]

\* The engine before an analysis of frame d with the news and ratios nr.
Asked(d, nr) ==
    [frame |-> d, news |-> nr[1], ratios |-> nr[2], done |-> FALSE,
     out |-> <<>>]

\* The value of sig while the engine is not used.
NoSignal == Asked(NoFrame, << <<>>, <<>> >>)

\* The value of req before the first request: n counts the requests, autos
\* the runs of execute_auto_trade.
NoReq ==
    [n |-> 0, autos |-> 0, done |-> 0, placed |-> 0, kind |-> "none",
     status |-> "none", run |-> Idle]

\* No request is in flight.
NoneInFlight == [c \in Clients |-> Idle]

\* What an observed tick records: the held symbols whose price fetch
\* returned None, and what the history fetch gave for each watchlist symbol.
Observed(feed, hist) ==
    [seen |-> TRUE, stale |-> {s \in DOMAIN feed : feed[s] = <<>>},
     hist |-> hist]

\* load_portfolio (23-28) followed by `if not portfolio: init_portfolio()`
\* (199-200, 361-362).
LoadOrInit ==
    IF file.state = "missing" THEN init_portfolio(Now) ELSE file.doc

Init ==
    /\ file = [state |-> "missing", doc |-> NoDoc]
    /\ nops = 0
    /\ last_op = "none"
    /\ pc = [p \in Procs |-> "idle"]
    /\ mem = [p \in Procs |-> NoDoc]
    /\ obs = NoObs
    /\ sig = NoSignal
    /\ cfg = PaperConfig
    /\ db = NoDb
    /\ req = NoReq
    /\ inflight = NoneInFlight

\* `portfolio_tracker.py init` (660-662): init_portfolio writes the seed
\* over whatever the file holds.
InitPortfolio ==
    /\ nops < MaxOps
    /\ file' = Complete(init_portfolio(Now))
    /\ nops' = nops + 1
    /\ last_op' = "init_portfolio"
    /\ obs' = NoObs
    /\ UNCHANGED <<pc, mem, sig, cfg, db, req, inflight>>

\* One auto_trade tick, run to completion.
AutoTrade ==
    /\ nops < MaxOps
    /\ file.state # "partial"
    /\ LET p == LoadOrInit IN
       \E feed \in [OpenSymbols(p) -> PriceOpt] :
         LET q == ExitPhase(p, feed, Now) IN
         IF q.cash >= MIN_ENTRY_CASH
         THEN \E hist \in HistFeeds(HistoryInputs) :
                file' = Complete(auto_trade(p, feed, hist, Now))
         ELSE \E hist \in HistFeeds({NoBars}) :
                file' = Complete(auto_trade(p, feed, hist, Now))
    /\ nops' = nops + 1
    /\ last_op' = "auto_trade"
    /\ obs' = NoObs
    /\ UNCHANGED <<pc, mem, sig, cfg, db, req, inflight>>

\* One auto_trade tick, run to completion, with its data observed.
AutoTradeObserved ==
    /\ nops < MaxScanOps
    /\ file.state # "partial"
    /\ \E feed \in [OpenSymbols(LoadOrInit) -> PriceOpt],
          hist \in HistFeeds(ScanInputs) :
         /\ file' = Complete(auto_trade(LoadOrInit, feed, hist, Now))
         /\ obs' = Observed(feed, hist)
    /\ nops' = nops + 1
    /\ last_op' = "auto_trade"
    /\ UNCHANGED <<pc, mem, sig, cfg, db, req, inflight>>

\* One update_portfolio run.
UpdatePortfolio ==
    /\ nops < MaxOps
    /\ file.state # "partial"
    /\ \E feed \in [OpenSymbols(LoadOrInit) -> PriceOpt] :
         file' = Complete(update_portfolio(LoadOrInit, feed, Now))
    /\ nops' = nops + 1
    /\ last_op' = "update_portfolio"
    /\ obs' = NoObs
    /\ UNCHANGED <<pc, mem, sig, cfg, db, req, inflight>>

\* One execute_trade call.  With no file, load_portfolio returns None and
\* the call raises before it writes anything.
ExecuteTrade ==
    /\ nops < MaxOps
    /\ file.state = "complete"
    /\ \E action \in {"BUY", "SELL"}, symbol \in Symbols,
          shares \in ManualShares, price \in ManualPrices :
         file' = Complete(execute_trade(file.doc, action, symbol, shares,
                                        price, ManualReason, Now))
    /\ nops' = nops + 1
    /\ last_op' = "execute_trade"
    /\ obs' = NoObs
    /\ UNCHANGED <<pc, mem, sig, cfg, db, req, inflight>>

Next ==
    \/ InitPortfolio
    \/ AutoTrade
    \/ UpdatePortfolio
    \/ ExecuteTrade

Spec == Init /\ [][Next]_vars

NextTicks ==
    \/ InitPortfolio
    \/ AutoTrade
    \/ UpdatePortfolio

\* Ticks only: no manual trade.
SpecTicks == Init /\ [][NextTicks]_vars

NextScan ==
    \/ InitPortfolio
    \/ AutoTradeObserved
    \/ UpdatePortfolio

\* Ticks only, the data of every auto_trade tick observed.
SpecScan == Init /\ [][NextScan]_vars

(* ------------------- one analysis of the strategy engine --------------- *)

\* The engine is asked for one symbol; the collaborators' answers are drawn.
InitSignal ==
    /\ file = [state |-> "missing", doc |-> NoDoc]
    /\ nops = 0
    /\ last_op = "none"
    /\ pc = [p \in Procs |-> "idle"]
    /\ mem = [p \in Procs |-> NoDoc]
    /\ obs = NoObs
    /\ sig \in {Asked(d, nr) : d \in Frames, nr \in NewsAndRatios}
    /\ cfg = PaperConfig
    /\ db = NoDb
    /\ req = NoReq
    /\ inflight = NoneInFlight

\* StrategyEngine.analyze_stock returns.
AnalyzeStock ==
    /\ ~sig.done
    /\ sig' = [sig EXCEPT !.done = TRUE,
                          !.out = strategy_analyze_stock(sig.frame, sig.news,
                                                         sig.ratios)]
    /\ UNCHANGED <<file, nops, last_op, pc, mem, obs, cfg, db, req, inflight>>

SpecSignal == InitSignal /\ [][AnalyzeStock]_vars

(* ------------------------ requests to the trading API ------------------ *)

\* The part of the state the trading API does not touch.
NoFile ==
    /\ file = [state |-> "missing", doc |-> NoDoc]
    /\ nops = 0
    /\ last_op = "none"
    /\ pc = [p \in Procs |-> "idle"]
    /\ mem = [p \in Procs |-> NoDoc]
    /\ obs = NoObs
    /\ sig = NoSignal

\* An empty database, in paper mode or in live mode, no request in flight.
InitOrders ==
    /\ NoFile
    /\ cfg \in {PaperConfig, PaperSsiConfig, LiveConfig}
    /\ db = NoDb
    /\ req = NoReq
    /\ inflight = NoneInFlight

\* Step a of the request of client c: the tables and the request after
\* it; the request leaves when it is answered.  started and runs count
\* the requests and the auto-trade runs the step begins.
Advance(c, a, started, runs) ==
    /\ db' = a.db
    /\ inflight' = [inflight EXCEPT
                      ![c] = IF a.run.pc = "done" THEN Idle ELSE a.run]
    /\ req' = IF a.run.pc = "done"
              THEN [n |-> req.n + started, autos |-> req.autos + runs,
                    done |-> req.done + 1, placed |-> req.placed,
                    kind |-> a.run.kind, status |-> a.run.status,
                    run |-> a.run]
              ELSE [req EXCEPT !.n = @ + started, !.autos = @ + runs]
    /\ UNCHANGED <<file, nops, last_op, pc, mem, obs, sig, cfg>>

\* The request of client c is at position at of handler kind.
At(c, kind, at) == inflight[c].kind = kind /\ inflight[c].pc = at

\* The request of client c may write: no other session is in a
\* transaction.  A writer that finds the file locked waits for the commit
\* of the holder; of the handlers only sync_with_ssi flushes before its
\* commit, at the selects after a row it added or changed.
MayWrite(c) == \A o \in Clients \ {c} : ~inflight[o].locked

\* GET /portfolio/balance arrives: the select.
GetBalance(c) ==
    /\ inflight[c] = Idle /\ req.n < MaxOrders
    /\ Advance(c, BalanceSelect(db, BalanceRequest), 1, 0)

\* get_balance commits the row it made.
GetBalanceInsert(c) ==
    /\ At(c, "balance", "commit") /\ MayWrite(c)
    /\ Advance(c, BalanceInsert(db, inflight[c]), 0, 0)

\* POST /portfolio/deposit arrives: the select.
Deposit(c) ==
    /\ inflight[c] = Idle /\ req.n < MaxOrders
    /\ \E amount \in DepositAmounts :
         Advance(c, DepositSelect(db, DepositRequest(amount)), 1, 0)

\* deposit_funds commits.
DepositWrite(c) ==
    /\ At(c, "deposit", "commit") /\ MayWrite(c)
    /\ Advance(c, DepositCommit(db, inflight[c]), 0, 0)

\* POST /trading/order arrives: the tests of the order.
PlaceOrder(c) ==
    /\ inflight[c] = Idle /\ req.n < MaxOrders
    /\ \E order \in Orders, quote \in Quotes :
         /\ order.price # <<>> => quote = <<>>
         /\ Advance(c, OrderCheck(db, OrderRun(order, quote)), 1, 0)

\* Live mode: the broker answers and place_order commits the trade.
PlaceOrderSend(c) ==
    /\ At(c, "order", "placed") /\ Live(cfg) /\ MayWrite(c)
    /\ \E accepted \in BOOLEAN :
         Advance(c, OrderSend(db, inflight[c], accepted), 0, 0)

\* Paper mode: place_order fills the trade and updates the portfolio.
PlaceOrderFill(c) ==
    /\ At(c, "order", "placed") /\ ~Live(cfg)
    /\ Advance(c, OrderFill(db, inflight[c]), 0, 0)

\* Paper mode: place_order commits.
PlaceOrderCommit(c) ==
    /\ At(c, "order", "commit") /\ MayWrite(c)
    /\ Advance(c, OrderCommit(db, inflight[c]), 0, 0)

\* POST /portfolio/sync-ssi arrives: the broker reports.
SyncWithSsi(c) ==
    /\ inflight[c] = Idle /\ req.n < MaxOrders
    /\ \E report \in Reports :
         Advance(c, SyncFetch(db, SyncRequest(report), cfg), 1, 0)

\* sync_with_ssi selects and sets the position of its next item, after
\* the flush of what it holds.
SyncWithSsiItem(c) ==
    /\ At(c, "sync", "item")
    /\ Pending(inflight[c].session) => MayWrite(c)
    /\ Advance(c, SyncNextItem(db, inflight[c]), 0, 0)

\* sync_with_ssi selects the balance and sets its cash, after the flush of
\* what it holds.
SyncWithSsiBalance(c) ==
    /\ At(c, "sync", "balance")
    /\ Pending(inflight[c].session) => MayWrite(c)
    /\ Advance(c, SyncCash(db, inflight[c]), 0, 0)

\* sync_with_ssi commits.
SyncWithSsiCommit(c) ==
    /\ At(c, "sync", "commit")
    /\ Pending(inflight[c].session) => MayWrite(c)
    /\ Advance(c, SyncCommit(db, inflight[c]), 0, 0)

NextOrders ==
    \E c \in Clients :
      \/ GetBalance(c)
      \/ GetBalanceInsert(c)
      \/ Deposit(c)
      \/ DepositWrite(c)
      \/ PlaceOrder(c)
      \/ PlaceOrderSend(c)
      \/ PlaceOrderFill(c)
      \/ PlaceOrderCommit(c)
      \/ SyncWithSsi(c)
      \/ SyncWithSsiItem(c)
      \/ SyncWithSsiBalance(c)
      \/ SyncWithSsiCommit(c)

SpecOrders == InitOrders /\ [][NextOrders]_vars

\* The account after the first k manual orders, sent one after the other
\* and taken by the broker in live mode.
RECURSIVE BuiltUp(_, _, _)
BuiltUp(d, k, config) ==
    IF k = 0 THEN d
    ELSE place_order(BuiltUp(d, k - 1, config), ManualOrders[k], <<>>, config,
                     TRUE).db

\* A funded account, auto-trading on or off, paper or live, with none or
\* some of the manual orders already placed.
InitAuto ==
    /\ NoFile
    /\ cfg \in {PaperConfig, PaperAutoConfig, LiveConfig}
    /\ \E amount \in OpeningDeposits, k \in AlreadyPlaced :
         /\ db = BuiltUp(deposit_funds(get_balance(NoDb).db, amount).db, k, cfg)
         /\ req = [NoReq EXCEPT !.placed = k]
    /\ inflight = NoneInFlight

\* POST /trading/order by hand: the next of the manual orders.
ManualBuy(c) ==
    /\ inflight[c] = Idle /\ req.n < MaxManual
    /\ LET order == ManualOrders[req.placed + req.n + 1]
       IN Advance(c, OrderCheck(db, OrderRun(order, <<>>)), 1, 0)

\* POST /trading/auto-trade arrives: the balance is read.
ExecuteAutoTrade(c) ==
    /\ inflight[c] = Idle /\ req.autos < MaxAutoRuns
    /\ Advance(c, AutoBalance(db, AutoRequest, cfg), 0, 1)

\* The run reads the positions and gets the picks of the engine.
AutoTradePositions(c) ==
    /\ At(c, "auto", "positions")
    /\ \E analyses \in AnalysesInputs :
         Advance(c, AutoPositions(db, inflight[c], analyses), 0, 0)

\* The run places the order for its next pick; the broker is asked in
\* live mode only, once per order.
AutoTradeOrder(c) ==
    /\ At(c, "auto", "pick")
    /\ \E accepted \in BOOLEAN :
         /\ ~Live(cfg) => accepted
         /\ Advance(c, AutoOrder(db, inflight[c], cfg, accepted), 0, 0)

\* Paper mode: place_order commits the order of the run.
AutoTradeCommit(c) ==
    /\ At(c, "auto", "pick_commit")
    /\ Advance(c, AutoCommit(db, inflight[c]), 0, 0)

NextAuto ==
    \E c \in Clients :
      \/ ManualBuy(c)
      \/ PlaceOrderSend(c)
      \/ PlaceOrderFill(c)
      \/ PlaceOrderCommit(c)
      \/ ExecuteAutoTrade(c)
      \/ AutoTradePositions(c)
      \/ AutoTradeOrder(c)
      \/ AutoTradeCommit(c)

SpecAuto == InitAuto /\ [][NextAuto]_vars

\* The engine is asked for the size of one position.
SizeAsked(cash, price, n) ==
    [n |-> 0, autos |-> 0, kind |-> "size", status |-> "asked",
     available_cash |-> cash, stock_price |-> price,
     num_stocks_to_buy |-> n, out |-> 0]

InitSize ==
    /\ NoFile
    /\ cfg = PaperConfig
    /\ db = NoDb
    /\ req \in {SizeAsked(cash, price, n) :
                  cash \in SizeCash, price \in SizePrices, n \in SizeCounts}
    /\ inflight = NoneInFlight

\* StrategyEngine.calculate_position_size returns.
CalculatePositionSize ==
    /\ req.kind = "size" /\ req.status = "asked"
    /\ req' = [req EXCEPT
                 !.status = "done",
                 !.out = calculate_position_size(req.available_cash,
                                                 req.stock_price,
                                                 req.num_stocks_to_buy)]
    /\ UNCHANGED <<file, nops, last_op, pc, mem, obs, sig, cfg, db, inflight>>

SpecSize == InitSize /\ [][CalculatePositionSize]_vars

(* ----------------- overlapping runs and killed processes --------------- *)

\* The seed is on disk; no process runs.
InitConc ==
    /\ file = Complete(init_portfolio(0))
    /\ nops = 1
    /\ last_op = "init_portfolio"
    /\ pc = [p \in Procs |-> "idle"]
    /\ mem = [p \in Procs |-> NoDoc]
    /\ obs = NoObs
    /\ sig = NoSignal
    /\ cfg = PaperConfig
    /\ db = NoDb
    /\ req = NoReq
    /\ inflight = NoneInFlight

\* Line 198: load_portfolio.  Nothing is locked (23-28).  On a file that is
\* not a complete JSON document json.load raises and the run ends.
Load(p) ==
    /\ pc[p] = "idle"
    /\ nops < MaxOps + 1
    /\ file.state = "complete"
    /\ pc' = [pc EXCEPT ![p] = "loaded"]
    /\ mem' = [mem EXCEPT ![p] = file.doc]
    /\ nops' = nops + 1
    /\ UNCHANGED <<file, last_op, obs, sig, cfg, db, req, inflight>>

\* Lines 207-342: the tick on the loaded document and save_portfolio run
\* to its end: open(PORTFOLIO_FILE, 'w'), json.dump, close (30-33).
Commit(p) ==
    /\ pc[p] = "loaded"
    /\ \E feed \in [OpenSymbols(mem[p]) -> PriceOpt] :
         LET q == ExitPhase(mem[p], feed, Now) IN
         IF q.cash >= MIN_ENTRY_CASH
         THEN \E hist \in HistFeeds(HistoryInputs) :
                file' = Complete(auto_trade(mem[p], feed, hist, Now))
         ELSE \E hist \in HistFeeds({NoBars}) :
                file' = Complete(auto_trade(mem[p], feed, hist, Now))
    /\ pc' = [pc EXCEPT ![p] = "idle"]
    /\ mem' = [mem EXCEPT ![p] = NoDoc]
    /\ last_op' = "auto_trade"
    /\ UNCHANGED <<nops, obs, sig, cfg, db, req, inflight>>

\* The process is killed inside save_portfolio: open(..., 'w') at line 32
\* has truncated the file and json.dump (33) has not finished.
KillInSave(p) ==
    /\ pc[p] = "loaded"
    /\ file' = [state |-> "partial", doc |-> NoDoc]
    /\ pc' = [pc EXCEPT ![p] = "idle"]
    /\ mem' = [mem EXCEPT ![p] = NoDoc]
    /\ UNCHANGED <<nops, last_op, obs, sig, cfg, db, req, inflight>>

\* The process is killed before save_portfolio is reached.
KillBeforeSave(p) ==
    /\ pc[p] = "loaded"
    /\ pc' = [pc EXCEPT ![p] = "idle"]
    /\ mem' = [mem EXCEPT ![p] = NoDoc]
    /\ UNCHANGED <<file, nops, last_op, obs, sig, cfg, db, req, inflight>>

NextConc ==
    \E p \in Procs :
      \/ Load(p)
      \/ Commit(p)
      \/ KillInSave(p)
      \/ KillBeforeSave(p)

\* auto_trade runs of several processes, interleaved at load and save, any
\* of which may be killed.
SpecConc == InitConc /\ [][NextConc]_vars

(* ============================== claims ================================= *)

Doc == file.doc
Persisted == file.state = "complete"

\* The stamp of the operation that ran last.
LastStamp == nops - 1

IsPrefix(s, t) == Len(s) <= Len(t) /\ SubSeq(t, 1, Len(s)) = s

Suffix(s, n) == SubSeq(s, n + 1, Len(s))

WithAction(trades, a) == SelectSeq(trades, LAMBDA t : t.action = a)

RECURSIVE SumTotals(_)
SumTotals(trades) ==
    IF trades = <<>> THEN 0 ELSE Head(trades).total + SumTotals(Tail(trades))

OpenIdx(doc) == {i \in 1..Len(doc.positions) : doc.positions[i].status = "OPEN"}

\* C1: every persisted portfolio document has cash >= 0, whatever prices and
\* scores the data feed returned: a purchase is applied only when its cost
\* is at most the cash at hand.
C1_CashNonNegative == Persisted => Doc.cash >= 0

\* A tick has just bought with a cost within 0.1% of the cash it had.
C1_Witness ==
    /\ Persisted /\ last_op = "auto_trade" /\ Doc.trades # <<>>
    /\ LET t == Doc.trades[Len(Doc.trades)]
       IN /\ t.action = "BUY" /\ t.date = LastStamp
          /\ Doc.cash < t.total \div 1000

\* C2: after every tick no two open positions are in the same symbol.
C2_DistinctOpenSymbols ==
    Persisted =>
      \A i, j \in OpenIdx(Doc) :
        i # j => Doc.positions[i].symbol # Doc.positions[j].symbol

\* A tick has just bought while another position was open.
C2_Witness ==
    /\ Persisted /\ last_op = "auto_trade"
    /\ \E i, j \in OpenIdx(Doc) :
         /\ Doc.positions[i].buy_date < LastStamp
         /\ Doc.positions[j].buy_date = LastStamp

\* C3: after an auto_trade tick the last history entry carries the cash of
\* the document and, as total_value, that cash plus the current_value of
\* every open position, a position bought in the tick included.
C3_TotalValueIdentity ==
    Persisted /\ last_op = "auto_trade" =>
      LET h    == Doc.history[Len(Doc.history)]
          open == OpenIdx(Doc)
          sum[S \in SUBSET open] ==
              IF S = {} THEN 0
              ELSE LET i == CHOOSE x \in S : TRUE
                   IN Doc.positions[i].current_value + sum[S \ {i}]
      IN /\ h.cash = Doc.cash
         /\ h.total_value = Doc.cash + sum[open]

\* A tick has just bought beside an older open position, and the portfolio
\* is no longer worth its initial budget.
C3_Witness ==
    /\ Persisted /\ last_op = "auto_trade"
    /\ Doc.history[Len(Doc.history)].total_value # Doc.initial_budget
    /\ \E i, j \in OpenIdx(Doc) :
         /\ Doc.positions[i].buy_date < LastStamp
         /\ Doc.positions[j].buy_date = LastStamp

\* C4: the BUY entries of the trade log are as many as the open plus the
\* closed positions, and the SELL entries as many as the closed positions.
C4_TradeLogCorrespondence ==
    Persisted =>
      /\ Len(WithAction(Doc.trades, "BUY"))
           = Cardinality(OpenIdx(Doc)) + Len(Doc.closed_positions)
      /\ Len(WithAction(Doc.trades, "SELL")) = Len(Doc.closed_positions)

\* Ticks have closed one position at its target and left another open.
C4_Witness ==
    /\ Persisted /\ last_op = "auto_trade"
    /\ OpenIdx(Doc) # {}
    /\ \E k \in 1..Len(Doc.closed_positions) :
         Doc.closed_positions[k].sell_price >= Doc.closed_positions[k].target

\* C5: whenever a process is killed during a tick, save_portfolio included,
\* the file holds a complete document, the one from before the tick or the
\* one the tick produced, never a partial one.
C5_SaveIsCrashSafe == file.state = "complete"

\* C6: ticks are serialized by a lock held from load_portfolio to
\* save_portfolio, so every document written extends the one it replaces:
\* no trade entry and no history entry of an overlapping run is lost.
C6_NoLostUpdate ==
    [][file.state = "complete" /\ file'.state = "complete"
         => /\ IsPrefix(file.doc.history, file'.doc.history)
            /\ IsPrefix(file.doc.trades, file'.doc.trades)]_vars

\* C7: in a tick, a position whose marked price is at or below its stop is
\* sold for STOP LOSS; otherwise one whose price is at or above its target
\* is sold for TARGET REACHED; otherwise it stays open.
C7_ExitRules ==
    Persisted =>
      /\ last_op = "auto_trade" =>
           \A i \in OpenIdx(Doc) :
             /\ Doc.positions[i].stop_loss < Doc.positions[i].current_price
             /\ Doc.positions[i].current_price < Doc.positions[i].target
      /\ Len(WithAction(Doc.trades, "SELL")) = Len(Doc.closed_positions)
      /\ \A k \in 1..Len(Doc.closed_positions) :
           LET c == Doc.closed_positions[k]
               t == WithAction(Doc.trades, "SELL")[k]
           IN /\ c.sell_price = c.current_price
              /\ c.sell_price <= c.stop_loss => t.reason.tag = "STOP LOSS"
              /\ c.sell_price > c.stop_loss =>
                   /\ c.sell_price >= c.target
                   /\ t.reason.tag = "TARGET REACHED"

\* One position was sold at exactly its stop and one at exactly its target.
C7_Witness ==
    /\ Persisted /\ last_op = "auto_trade"
    /\ \E k \in 1..Len(Doc.closed_positions) :
         Doc.closed_positions[k].sell_price = Doc.closed_positions[k].stop_loss
    /\ \E k \in 1..Len(Doc.closed_positions) :
         Doc.closed_positions[k].sell_price = Doc.closed_positions[k].target

\* The step is one auto_trade tick.
AutoTradeStep == last_op' = "auto_trade" /\ nops' = nops + 1

Ids(positions) == {positions[i].id : i \in 1..Len(positions)}

\* What C8 says of the tick that leads from document pre to document post.
C8_Post(pre, post) ==
    LET sold  == Suffix(post.closed_positions, Len(pre.closed_positions))
        new   == Suffix(post.trades, Len(pre.trades))
        sells == WithAction(new, "SELL")
        buys  == WithAction(new, "BUY")
        preOpen == {i \in 1..Len(pre.positions) :
                      pre.positions[i].status = "OPEN"}
    IN /\ IsPrefix(pre.closed_positions, post.closed_positions)
       /\ IsPrefix(pre.trades, post.trades)
       /\ Len(sells) = Len(sold)
       /\ post.cash = pre.cash + SumTotals(sells) - SumTotals(buys)
       /\ \A k \in 1..Len(sold) :
            /\ sold[k].status = "CLOSED"
            /\ sold[k].sell_price = sold[k].current_price
            /\ sold[k].id \in {pre.positions[i].id : i \in preOpen}
            /\ sold[k].id \notin Ids(post.positions)
            /\ sells[k].symbol = sold[k].symbol
            /\ sells[k].shares = sold[k].shares
            /\ sells[k].price = sold[k].current_price
            /\ sells[k].total = sold[k].current_price * sold[k].shares
       /\ \A i \in preOpen :
            LET x == pre.positions[i] IN
            IF x.id \in Ids(sold)
            THEN \E k \in 1..Len(sold) :
                   /\ sold[k].id = x.id /\ sold[k].shares = x.shares
                   /\ sold[k].buy_cost = x.buy_cost
            ELSE \E j \in 1..Len(post.positions) :
                   LET y == post.positions[j] IN
                   /\ y.id = x.id /\ y.status = "OPEN"
                   /\ y.shares = x.shares /\ y.buy_cost = x.buy_cost
                   /\ y.target = x.target /\ y.stop_loss = x.stop_loss

\* C8: a sale in a tick credits cash with exactly current_price * shares,
\* appends one SELL entry with the position's symbol, shares, price and
\* total, moves the position, CLOSED at sell_price = current_price, from
\* positions to closed_positions, and leaves the shares, buy_cost, target
\* and stop_loss of every other position as they were.
C8_SellEffect == [][AutoTradeStep => C8_Post(LoadOrInit, file'.doc)]_vars

\* A tick has just sold one position and kept an older one.
C8_Witness ==
    /\ Persisted /\ last_op = "auto_trade"
    /\ \E k \in 1..Len(Doc.closed_positions) :
         Doc.closed_positions[k].sell_date = LastStamp
    /\ \E i \in OpenIdx(Doc) : Doc.positions[i].buy_date < LastStamp

\* The ids of the positions that are closed in document d.
ClosedIds(d) ==
    Ids(d.closed_positions)
      \cup {d.positions[i].id :
              i \in {j \in 1..Len(d.positions) :
                       d.positions[j].status = "CLOSED"}}

\* What C9 says of a step from document pre to document post.
C9_Post(pre, post) ==
    /\ IsPrefix(pre.closed_positions, post.closed_positions)
    /\ \A k, l \in 1..Len(post.closed_positions) :
         post.closed_positions[k].id = post.closed_positions[l].id => k = l
    /\ ClosedIds(post) = Ids(post.closed_positions)
    /\ \A i \in 1..Len(pre.positions) :
         pre.positions[i].id \in ClosedIds(pre) =>
           \A j \in 1..Len(post.positions) :
             post.positions[j].id = pre.positions[i].id =>
               post.positions[j] = pre.positions[i]
    /\ \A j \in 1..Len(post.positions) :
         post.positions[j].status = "OPEN" =>
           post.positions[j].id \notin ClosedIds(pre)

\* C9: a closed position is never open again, never marked to market or
\* sold again, and is in closed_positions exactly once, over any sequence
\* of auto_trade, update_portfolio and execute_trade.
C9_ClosedIsFinal ==
    [][(/\ file.state = "complete" /\ file'.state = "complete"
        /\ last_op' # "init_portfolio")
         => C9_Post(file.doc, file'.doc)]_vars

\* A tick has run over a document whose positions list still holds a
\* position closed by an earlier execute_trade.
C9_Witness ==
    /\ Persisted
    /\ last_op = "update_portfolio"
    /\ \E i \in 1..Len(Doc.positions) :
         /\ Doc.positions[i].status = "CLOSED"
         /\ Doc.positions[i].sell_date < LastStamp
    /\ Len(Doc.history) >= 2

\* C10: every closed position has final_pnl = sell_price * shares - buy_cost
\* with buy_cost = shares * buy_price.
C10_FinalPnl ==
    Persisted =>
      \A k \in 1..Len(Doc.closed_positions) :
        LET c == Doc.closed_positions[k]
        IN /\ c.final_pnl = c.sell_price * c.shares - c.buy_cost
           /\ c.buy_cost = c.shares * c.buy_price

\* A position was closed at a loss and another at a gain.
C10_Witness ==
    /\ Persisted
    /\ \E k \in 1..Len(Doc.closed_positions) :
         Doc.closed_positions[k].final_pnl < 0
    /\ \E k \in 1..Len(Doc.closed_positions) :
         Doc.closed_positions[k].final_pnl > 0

(* ------------------------- the entry scan of a tick -------------------- *)

\* The last operation was an auto_trade tick, and its document is on disk.
TickEnded == Persisted /\ last_op = "auto_trade"

\* The same, with the data the tick got in obs.
TickSeen == TickEnded /\ obs.seen

\* The trade entries the last tick appended (entry 1 is the seed's).
TickTrades(a) ==
    SelectSeq(SubSeq(Doc.trades, 2, Len(Doc.trades)),
              LAMBDA t : t.action = a /\ t.date = LastStamp)

TickBuys == TickTrades("BUY")
TickSells == TickTrades("SELL")

\* The positions the last tick added (position 1 is the seed's).
TickPositions ==
    {i \in 1..Len(Doc.positions) :
       Doc.positions[i].id >= 2 /\ Doc.positions[i].buy_date = LastStamp}

\* The cash after the exits of the last tick, when its entry scan started.
EntryCash == Doc.cash + SumTotals(TickBuys)

\* The symbols that were open when the entry scan of the last tick started.
EntryOpen ==
    {Doc.positions[i].symbol : i \in OpenIdx(Doc) \ TickPositions}

\* What analyze_stock made of the history the last tick got for s.
Seen(s) == analyze_stock(s, obs.hist[s])

\* The symbols the last tick could have bought: analyzable, at the entry
\* score, one lot affordable, not open.
Qualifying ==
    {s \in Symbols \ EntryOpen :
       /\ Seen(s) # <<>>
       /\ Seen(s)[1].score >= ENTRY_SCORE
       /\ Seen(s)[1].price * LOT <= EntryCash}

\* C11: a tick appends at most one BUY entry and adds at most one position,
\* however many watchlist symbols qualify.
C11_OneEntryPerTick ==
    TickSeen => Len(TickBuys) <= 1 /\ Cardinality(TickPositions) <= 1

\* A tick for which two symbols qualified has bought one of them.
C11_Witness ==
    /\ TickSeen /\ EntryCash >= MIN_ENTRY_CASH
    /\ Cardinality(Qualifying) >= 2
    /\ Len(TickBuys) = 1 /\ Cardinality(TickPositions) = 1

\* C12: a tick whose cash after the exits is below 5,000,000 VND appends no
\* BUY entry and adds no position.
C12_EntryNeedsCash ==
    TickSeen /\ EntryCash < MIN_ENTRY_CASH
      => TickBuys = <<>> /\ TickPositions = {}

\* A tick has sold, was left with less than 5,000,000 VND, and bought
\* nothing although a symbol at the entry score was affordable.
C12_Witness ==
    /\ TickSeen /\ EntryCash < MIN_ENTRY_CASH
    /\ TickSells # <<>>
    /\ Qualifying # {}
    /\ TickBuys = <<>>

\* The symbols the last tick could analyze and that were not open.
Analyzable == {s \in Symbols \ EntryOpen : Seen(s) # <<>>}

\* C13: the symbol a tick buys has a score of at least 30, the highest score
\* among the analyzable watchlist symbols that are not open.
C13_BuysTopScore ==
    TickSeen =>
      \A k \in 1..Len(TickBuys) :
        LET s == TickBuys[k].symbol IN
        /\ Seen(s) # <<>>
        /\ Seen(s)[1].score >= ENTRY_SCORE
        /\ \A u \in Analyzable : Seen(u)[1].score <= Seen(s)[1].score

\* The watchlist symbols in lexicographic order.
Lexicographic ==
    <<"FPT", "GAS", "HPG", "MSN", "MWG", "TCB", "VCB", "VHM", "VIC", "VNM">>

LexRank(s) == CHOOSE i \in 1..Len(Lexicographic) : Lexicographic[i] = s

\* The qualifying symbols with the highest score among them.
TopTied ==
    {s \in Qualifying :
       \A u \in Qualifying : Seen(u)[1].score <= Seen(s)[1].score}

\* C14: when several qualifying symbols tie on the top score, the tick buys
\* the lexicographically smallest of them, wherever they are in the
\* watchlist.
C14_TieBreakLexicographic ==
    TickSeen =>
      \A k \in 1..Len(TickBuys) :
        \A s \in TopTied : LexRank(TickBuys[k].symbol) <= LexRank(s)

\* C15: a symbol sold by the exits of a tick is not bought by the entry scan
\* of the same tick: no tick appends a SELL and a BUY entry for one symbol.
C15_NoSameTickReentry ==
    TickEnded =>
      \A i \in 1..Len(TickSells), j \in 1..Len(TickBuys) :
        TickSells[i].symbol # TickBuys[j].symbol

\* C16: the shares a tick buys are floor(floor(cash / price) / 100) * 100,
\* cash being the cash when the entry scan starts; with cash for two lots or
\* more the position holds more than 100 shares.
C16_SharesFromCash ==
    TickEnded =>
      \A k \in 1..Len(TickBuys) :
        LET t == TickBuys[k]
        IN /\ t.shares = ((EntryCash \div t.price) \div LOT) * LOT
           /\ t.shares >= LOT

\* C17: every open position has shares > 0, a whole number of lots, and
\* buy_cost = shares * buy_price.
C17_WholeLots ==
    Persisted =>
      \A i \in OpenIdx(Doc) :
        LET x == Doc.positions[i]
        IN /\ x.shares > 0
           /\ x.shares % LOT = 0
           /\ x.buy_cost = x.shares * x.buy_price

\* A position bought by a tick with cash for four lots is open and has been
\* marked to market by a later operation.
C17_Witness ==
    /\ Persisted
    /\ \E i \in OpenIdx(Doc) :
         LET x == Doc.positions[i]
         IN /\ x.id >= 2 /\ x.buy_date < LastStamp
            /\ x.current_price # x.buy_price
            /\ \E k \in 1..Len(Doc.history) :
                 /\ Doc.history[k].date = x.buy_date
                 /\ Doc.history[k].cash >= 3 * x.buy_cost

\* What C18 says of the observed tick that leads from document pre to
\* document post, stale being the symbols whose price fetch failed.
C18_Post(pre, post, stale) ==
    \A i \in 1..Len(pre.positions) :
      LET x == pre.positions[i] IN
      x.status = "OPEN" /\ x.symbol \in stale =>
        \E j \in 1..Len(post.positions) :
          LET y == post.positions[j] IN
          /\ y.id = x.id
          /\ y.status = "OPEN"
          /\ y.current_price = x.current_price

\* C18: a position whose price fetch fails in a tick keeps the
\* current_price it had and is not sold in that tick, in every state that
\* auto_trade and update_portfolio reach.
C18_StalePriceNoExit ==
    [][AutoTradeStep /\ obs'.seen
         => C18_Post(LoadOrInit, file'.doc, obs'.stale)]_vars

\* The watchlist symbols whose history fetch raised in the last tick.
FailedHistory == {s \in Symbols : obs.hist[s].fails}

\* C19: a tick in which the price fetch of a held symbol or the history
\* fetch of a watchlist symbol fails runs to its end: it buys none of the
\* failing symbols, still buys when another symbol qualifies, appends its
\* history entry and writes the document.
C19_FailureDoesNotAbort ==
    TickSeen /\ (obs.stale # {} \/ FailedHistory # {}) =>
      /\ Len(Doc.history) >= 2
      /\ Doc.history[Len(Doc.history)].date = LastStamp
      /\ Doc.history[Len(Doc.history)].cash = Doc.cash
      /\ Doc.last_updated = LastStamp
      /\ \A k \in 1..Len(TickBuys) : TickBuys[k].symbol \notin FailedHistory
      /\ EntryCash >= MIN_ENTRY_CASH /\ Qualifying # {} => TickBuys # <<>>

\* In one tick the price fetch of a held symbol failed, the history fetch of
\* the first watchlist symbol raised, and the second was bought.
C19_Witness ==
    /\ TickSeen
    /\ obs.stale # {}
    /\ WATCHLIST[1] \in FailedHistory
    /\ Len(TickBuys) = 1 /\ TickBuys[1].symbol = WATCHLIST[2]

\* C20: a symbol with fewer than 50 bars of history is not scored and not
\* bought.
C20_ShortHistorySkipped ==
    TickSeen =>
      \A s \in Symbols :
        obs.hist[s].nbars < SMA50_BARS =>
          /\ Seen(s) = <<>>
          /\ \A k \in 1..Len(TickBuys) : TickBuys[k].symbol # s

(* ----------------------- the logs of the document ---------------------- *)

\* The step is one auto_trade, update_portfolio or execute_trade, run to
\* its end.  The `init` command is not one of them: it starts a portfolio.
OperationStep ==
    /\ nops' = nops + 1
    /\ file'.state = "complete"
    /\ last_op' # "init_portfolio"

\* No BUY entry comes before a SELL entry in the trade entries `new`.
SellsBeforeBuys(new) ==
    \A i, j \in 1..Len(new) :
      i < j => ~(new[i].action = "BUY" /\ new[j].action = "SELL")

\* C21: a tick appends its SELL entries before its BUY entry, and every
\* operation leaves the earlier entries of trades in their order.
C21_TradeOrder ==
    [][OperationStep =>
         /\ IsPrefix(LoadOrInit.trades, file'.doc.trades)
         /\ AutoTradeStep =>
              SellsBeforeBuys(Suffix(file'.doc.trades,
                                     Len(LoadOrInit.trades)))]_vars

\* A tick has sold and bought, after an earlier tick had traded.
C21_Witness ==
    /\ TickEnded
    /\ TickSells # <<>> /\ TickBuys # <<>>
    /\ \E k \in 2..Len(Doc.trades) : Doc.trades[k].date < LastStamp

\* C22: a tick (auto_trade or update_portfolio) appends exactly one history
\* entry and leaves the earlier ones unchanged; the dates of the entries
\* never decrease along the list.
C22_OneHistoryEntryPerTick ==
    [][OperationStep =>
         /\ Len(file'.doc.history) = Len(LoadOrInit.history) + 1
         /\ IsPrefix(LoadOrInit.history, file'.doc.history)
         /\ file'.doc.history[Len(file'.doc.history)].date = Now
         /\ \A i, j \in 1..Len(file'.doc.history) :
              i < j => file'.doc.history[i].date
                         <= file'.doc.history[j].date]_vars

\* A tick that neither sold nor bought has appended an entry with a new
\* total value, after two earlier entries.
C22_Witness ==
    /\ TickEnded
    /\ TickSells = <<>> /\ TickBuys = <<>>
    /\ Len(Doc.history) >= 3
    /\ Doc.history[Len(Doc.history)].total_value
         # Doc.history[Len(Doc.history) - 1].total_value

\* C23: every operation leaves the entries that trades and closed_positions
\* had as they were, in content and order; marking a position to market
\* changes no entry of closed_positions.
C23_AppendOnlyLogs ==
    [][OperationStep =>
         /\ IsPrefix(LoadOrInit.trades, file'.doc.trades)
         /\ IsPrefix(LoadOrInit.closed_positions,
                     file'.doc.closed_positions)]_vars

\* A position in a symbol that has a closed copy was marked to market by the
\* last operation, at a price the copy does not have.
C23_Witness ==
    /\ Persisted
    /\ last_op \in {"auto_trade", "update_portfolio"}
    /\ \E k \in 1..Len(Doc.closed_positions), i \in OpenIdx(Doc) :
         /\ Doc.closed_positions[k].symbol = Doc.positions[i].symbol
         /\ Doc.closed_positions[k].sell_date < LastStamp
         /\ Doc.positions[i].current_price # Doc.positions[i].buy_price
         /\ Doc.positions[i].current_price
              # Doc.closed_positions[k].current_price

\* What C24 says of an operation that leads from document pre to post.
C24_Post(pre, post) ==
    /\ post.cash >= 0
    /\ \A j \in 1..Len(post.positions) :
         post.positions[j].id \notin Ids(pre.positions) =>
           \A i \in 1..Len(post.positions) :
             i # j /\ post.positions[i].status = "OPEN" =>
               post.positions[i].symbol # post.positions[j].symbol

\* C24: a BUY, by execute_trade or by the entry step of a tick, that would
\* make cash negative or open a second OPEN position in a symbol is
\* rejected: cash, positions and trades stay as they were.
C24_BuyRejected ==
    [][OperationStep => C24_Post(LoadOrInit, file'.doc)]_vars

(* ------------------- claims: the strategy engine ----------------------- *)
(* Checked under SpecSignal.  Totals are in twentieths: a total of 50 is   *)
(* 50 * UNIT.                                                              *)

\* The engine has analysed the frame and returned a signal.
Signalled == sig.done /\ sig.out # <<>>

\* C26: _score_to_signal maps every score to exactly one bucket:
\* score >= 50 STRONG_BUY; 20 <= score < 50 BUY; -20 < score < 20 HOLD;
\* -50 < score <= -20 SELL; score <= -50 STRONG_SELL, the boundary values
\* 50, 20, -20 and -50 included.
C26_ScoreBuckets ==
    Signalled =>
      LET score  == sig.out[1].total
          signal == sig.out[1].signal
      IN /\ (score >= 50 * UNIT) <=> (signal = "STRONG_BUY")
         /\ (20 * UNIT <= score /\ score < 50 * UNIT) <=> (signal = "BUY")
         /\ ((0 - 20) * UNIT < score /\ score < 20 * UNIT)
              <=> (signal = "HOLD")
         /\ ((0 - 50) * UNIT < score /\ score <= (0 - 20) * UNIT)
              <=> (signal = "SELL")
         /\ (score <= (0 - 50) * UNIT) <=> (signal = "STRONG_SELL")

\* A total of exactly 50 has been bucketed as STRONG_BUY.
C26_Witness ==
    /\ Signalled
    /\ sig.out[1].total = 50 * UNIT
    /\ sig.out[1].signal = "STRONG_BUY"

\* C27: when the sentiment or the fundamental input is absent the total is
\* the raw technical score; when both are present it is 0.40 * technical
\* + 0.35 * sentiment + 0.25 * fundamental.
C27_RawTechnicalWhenAbsent ==
    Signalled =>
      LET o == sig.out[1]
      IN IF sig.news = <<>> \/ sig.ratios = <<>>
         THEN o.total = UNIT * o.technical_score
         ELSE o.total = 8 * o.technical_score + 7 * o.sentiment_score
                          + 5 * o.fundamental_score

\* C28: with an ATR of a, a buy signal has target = price + 3a and
\* stop = price - 1.5a, a sell signal has target = price - 3a and
\* stop = price + 1.5a, and a HOLD signal has no target and no stop.
C28_AtrTargets ==
    Signalled =>
      LET o == sig.out[1]
      IN /\ o.signal = "HOLD" =>
              o.target_price = <<>> /\ o.stop_loss = <<>>
         /\ (o.signal \in {"BUY", "STRONG_BUY"} /\ sig.frame.atr # <<>>) =>
              /\ o.target_price = <<o.price + 3 * sig.frame.atr[1]>>
              /\ Len(o.stop_loss) = 1
              /\ 2 * o.stop_loss[1] = 2 * o.price - 3 * sig.frame.atr[1]
         /\ (o.signal \in {"SELL", "STRONG_SELL"} /\ sig.frame.atr # <<>>) =>
              /\ o.target_price = <<o.price - 3 * sig.frame.atr[1]>>
              /\ Len(o.stop_loss) = 1
              /\ 2 * o.stop_loss[1] = 2 * o.price + 3 * sig.frame.atr[1]

\* A sell signal on a frame with an ATR has got its target below and its
\* stop above the price.
C28_Witness ==
    /\ Signalled
    /\ sig.frame.atr # <<>>
    /\ sig.out[1].signal \in {"SELL", "STRONG_SELL"}
    /\ sig.out[1].target_price = <<sig.out[1].price - 3 * sig.frame.atr[1]>>
    /\ sig.out[1].stop_loss # <<>>
    /\ sig.out[1].stop_loss[1] > sig.out[1].price

\* C29: with no ATR, a buy signal has target = price * 1.10 and
\* stop = price * 0.95.
C29_FallbackTargets ==
    (Signalled /\ sig.frame.atr = <<>>
       /\ sig.out[1].signal \in {"BUY", "STRONG_BUY"}) =>
      LET o == sig.out[1]
      IN /\ Len(o.target_price) = 1 /\ Len(o.stop_loss) = 1
         /\ 100 * o.target_price[1] = 110 * o.price
         /\ 100 * o.stop_loss[1] = 95 * o.price

\* The one trend contribution the document allows.
TrendRule(price, sma20, sma50) ==
    IF price > sma20 /\ sma20 > sma50 THEN 25
    ELSE IF price > sma20 THEN 10
    ELSE IF price < sma20 /\ sma20 < sma50 THEN 0 - 20
    ELSE IF price < sma20 THEN 0 - 10
    ELSE 0

\* The frame has the moving averages and nothing else that scores: the
\* indicators stopped after the averages and the five-day return is flat.
TrendOnly(d) ==
    /\ d.sma # <<>>
    /\ d.rsi = <<>> /\ d.macd = <<>> /\ d.bb = <<>> /\ d.vol = <<>>
    /\ d.close5 = d.close

\* C30: at most one trend rule contributes to the technical score and the
\* stronger one wins: +25 for price > sma20 > sma50, +10 for price > sma20
\* alone, -20 for price < sma20 < sma50, -10 for price < sma20 alone.
C30_OneTrendRule ==
    (Signalled /\ TrendOnly(sig.frame)) =>
      sig.out[1].technical_score =
        TrendRule(sig.frame.close, sig.frame.sma[1].sma20,
                  sig.frame.sma[1].sma50)

\* What the MACD rule of the document adds.  macd = signal on the last bar
\* is on the below side; the side changes to negative when the bar before
\* was above, or was level and the last bar is strictly below.
MacdRule(m) ==
    IF m.macd > m.signal
    THEN IF m.macd_prev <= m.signal_prev THEN 20 ELSE 10
    ELSE IF \/ m.macd_prev > m.signal_prev
            \/ m.macd_prev = m.signal_prev /\ m.macd < m.signal
         THEN 0 - 20
         ELSE 0 - 10

\* What the MACD lines added to the technical score of the signal.
MacdPoints ==
    sig.out[1].technical_score
      - (RsiScore(sig.frame) + SmaScore(sig.frame) + BollingerScore(sig.frame)
         + VolumeScore(sig.frame) + ReturnScore(sig.frame))

\* C31: with macd and signal present the MACD rule adds exactly one of
\* +20 (macd > signal now, macd <= signal on the bar before), +10 (above on
\* both bars), -20 (the sign of macd - signal changes to negative on the
\* last bar) and -10 (macd <= signal with no change); macd = signal counts
\* as below, so macd = signal on both bars adds -10, not -20.
C31_MacdRule ==
    (Signalled /\ sig.frame.macd # <<>>) =>
      MacdPoints = MacdRule(sig.frame.macd[1])

\* C39: with no news and no fundamental data the signal is never
\* STRONG_BUY or STRONG_SELL, the total staying strictly between -50 and 50.
C39_NoStrongSignalOnTechnicalsAlone ==
    (Signalled /\ sig.news = <<>> /\ sig.ratios = <<>>) =>
      /\ sig.out[1].signal \notin {"STRONG_BUY", "STRONG_SELL"}
      /\ (0 - 50) * UNIT < sig.out[1].total
      /\ sig.out[1].total < 50 * UNIT

\* Every rule of the technical score adds its highest value (95 in all),
\* there is no news and there are no ratios, and the signal is BUY.
C39_Witness ==
    /\ Signalled /\ sig.news = <<>> /\ sig.ratios = <<>>
    /\ sig.out[1].technical_score = 20 + 20 + 20 + 15 + 10 + 10
    /\ sig.out[1].signal = "BUY"

(* ------------------ claims: cash and the report ------------------------ *)

\* C35: cash conservation against the trade log: in every persisted
\* document reached from the seed by ticks and execute_trade calls,
\* cash = initial_budget - (sum of total over the BUY entries)
\*        + (sum of total over the SELL entries).
C35_CashMatchesTradeLog ==
    Persisted =>
      Doc.cash = Doc.initial_budget - SumTotals(WithAction(Doc.trades, "BUY"))
                   + SumTotals(WithAction(Doc.trades, "SELL"))

UpdateStep == last_op' = "update_portfolio" /\ nops' = nops + 1

\* The fields of a position that update_portfolio may not change.
Holding(pos) ==
    [id |-> pos.id, symbol |-> pos.symbol, status |-> pos.status,
     shares |-> pos.shares, buy_price |-> pos.buy_price,
     buy_cost |-> pos.buy_cost, buy_date |-> pos.buy_date,
     target |-> pos.target, stop_loss |-> pos.stop_loss]

\* What C36 says of the update that leads from document pre to document post.
C36_Post(pre, post) ==
    /\ post.cash = pre.cash
    /\ post.initial_budget = pre.initial_budget
    /\ post.trades = pre.trades
    /\ post.closed_positions = pre.closed_positions
    /\ Len(post.positions) = Len(pre.positions)
    /\ \A i \in 1..Len(pre.positions) :
         /\ Holding(post.positions[i]) = Holding(pre.positions[i])
         /\ DOMAIN post.positions[i] = DOMAIN pre.positions[i]
    /\ IsPrefix(pre.history, post.history)

\* C36: update_portfolio is report-only: it leaves cash, trades,
\* closed_positions and the status, shares, buy_cost, target and stop_loss
\* of every position unchanged, also when a stop-loss or target condition
\* holds; it changes only the mark-to-market fields, history, last_updated.
C36_UpdateIsReportOnly == [][UpdateStep => C36_Post(LoadOrInit, file'.doc)]_vars

\* update_portfolio has just marked an open position at or below its stop
\* and another at or above its target, and both are still open.
C36_Witness ==
    /\ Persisted /\ last_op = "update_portfolio"
    /\ \E i \in OpenIdx(Doc) :
         Doc.positions[i].current_price <= Doc.positions[i].stop_loss
    /\ \E i \in OpenIdx(Doc) :
         Doc.positions[i].current_price >= Doc.positions[i].target

(* --------------------- claims: the trading API ------------------------- *)
(* C32, C33 and C37 are checked under SpecOrders, C38 under SpecAuto,      *)
(* C34 under SpecSize.                                                     *)

\* The step answers a request to place_order that was not refused and did
\* not fail.
OrderStep ==
    /\ req'.done = req.done + 1
    /\ req'.kind = "order"
    /\ req'.status \notin {"400", "500"}

\* The price the order of request r asked for.
RequestedPrice(r) == IF r.order.price # <<>> THEN r.order.price ELSE r.quote

\* What C32 says of the step that answers the order r, from database pre
\* to database post.
C32_Post(pre, post, r) ==
    /\ Len(post.trades) = Len(pre.trades) + 1
    /\ IsPrefix(pre.trades, post.trades)
    /\ LET t == post.trades[Len(post.trades)]
       IN /\ t.symbol = r.order.symbol /\ t.trade_type = r.order.side
          /\ t.status = r.status
          /\ Live(cfg) =>
               /\ t.status \in {"PENDING", "REJECTED"}
               /\ post.balance = pre.balance
               /\ post.portfolio = pre.portfolio
               /\ post.balance_history = pre.balance_history
          /\ ~Live(cfg) =>
               /\ t.status = "FILLED"
               /\ t.filled_price = RequestedPrice(r)
               /\ t.filled_quantity = <<r.order.quantity>>

\* C32: in live mode an order the broker rejects is recorded as a trade with
\* status REJECTED and leaves the cash balance and every position
\* unchanged; in paper mode an accepted order is recorded as FILLED with
\* filled_price the requested price and filled_quantity the requested
\* quantity.
C32_RejectedOrderChangesNothing ==
    [][OrderStep => C32_Post(db, db', req'.run)]_vars

\* The broker has just rejected a live BUY order of a funded account.
C32_Witness ==
    /\ Live(cfg) /\ req.kind = "order" /\ req.status = "REJECTED"
    /\ req.run.order.side = "BUY"
    /\ db.balance # <<>> /\ db.balance[1].cash_balance > 0
    /\ db.trades # <<>> /\ db.trades[Len(db.trades)].status = "REJECTED"

\* C33: after any sequence of deposits and paper-mode orders accepted by
\* place_order the cash balance is >= 0.
C33_BalanceNonNegative ==
    (~Live(cfg) /\ db.balance # <<>>) => db.balance[1].cash_balance >= 0

\* C37: every position row has total_cost = quantity * avg_buy_price and
\* quantity >= 0 after any sequence of paper-mode orders.
C37_PositionCostIdentity ==
    ~Live(cfg) =>
      \A s \in DOMAIN db.portfolio :
        /\ db.portfolio[s].quantity >= 0
        /\ db.portfolio[s].total_cost
             = FractionTimes(db.portfolio[s].quantity,
                             db.portfolio[s].avg_buy_price)

\* The step is one of the auto-trade run of client c.
AutoStep(c) == inflight[c].kind = "auto" /\ inflight'[c] # inflight[c]

\* The symbols of the BUY orders the step has added to the trade log.
NewBuys(pre, post) ==
    {post.trades[k].symbol : k \in {j \in (Len(pre.trades) + 1)..Len(post.trades) :
                                     post.trades[j].trade_type = "BUY"}}

\* C38: execute_auto_trade never raises the number of held positions above
\* max_stocks_in_portfolio: a run that found that many positions or more
\* places no BUY order for a symbol that is not held.
C38_AutoTradeKeepsPositionCap ==
    [][\A c \in Clients :
         (AutoStep(c) /\ inflight[c].num_positions >= MAX_STOCKS) =>
           NewBuys(db, db') \subseteq HeldSymbols(db)]_vars

\* C34: calculate_position_size(available_cash, price, n) returns the
\* largest multiple of 100 whose cost does not exceed available_cash / n,
\* which is 0 when not even one lot fits.
C34_PositionSize ==
    (req.kind = "size" /\ req.status = "done") =>
      /\ req.out >= 0
      /\ req.out % 100 = 0
      /\ req.out * req.stock_price * req.num_stocks_to_buy <= req.available_cash
      /\ (req.out + 100) * req.stock_price * req.num_stocks_to_buy
           > req.available_cash

\* Three positions are sized from 7,500,000 at 20,100 a share: 124 shares
\* fit in a third of the cash and one lot is returned.
C34_Witness ==
    /\ req.kind = "size" /\ req.status = "done"
    /\ req.available_cash = 7500000 /\ req.stock_price = 20100
    /\ req.num_stocks_to_buy = 3
    /\ req.out = 100

====
